---- MODULE Spec2Model ----
(***************************************************************************)
(* A model of pj, a TCP reverse proxy: the relay engine ProxyApp::duplex   *)
(* with the per-mapping gauge of active connections (src/src/lib.rs), the  *)
(* per-connection ConnectionInfo / ConnectionStats (src/src/connection.rs) *)
(* and the ConnectionIdManager (src/src/id_manager.rs); then the pure      *)
(* functions parse_proxy_mapping, parse_duration, parse_count and          *)
(* format_bytes, each applied to inputs drawn from a bounded set, and the  *)
(* startup sequence of main (src/src/main.rs).                             *)
(*                                                                         *)
(* u64 values are modelled as integers: a u64 that would wrap below zero   *)
(* shows as a negative number.  Option<T> is modelled by the value None    *)
(* (for Option::None) or the payload itself (for Some(payload)).           *)
(* What a task holds in local variables is forgotten when the task ends.   *)
(* A log line is visible in the state that follows the step emitting it.   *)
(***************************************************************************)
EXTENDS Integers, Sequences, FiniteSets, TLC

\* ------------------------------------------------------------------ bounds
MaxChunk == 2       \* largest byte count one read returns
MaxBytes == 1       \* cap on the bytes read by all relays of a run together
MaxOneBytes == 4    \* cap on the bytes read by the relay of a run with a single client
NumCallers == 2     \* threads calling next_id concurrently
MaxCalls == 2       \* next_id calls made during a run by concurrent callers, all together
MaxSingleCalls == 5 \* next_id calls made during a run by a single caller
MaxTime == 2        \* last instant of the monotonic clock
MaxInterval == 2    \* largest configured reset interval
MaxThreshold == 2   \* largest configured reset threshold
MaxMappingLen == 7  \* longest string given to parse_proxy_mapping
MaxDelta == 16      \* largest distance of a byte count given to format_bytes from a tier boundary
MaxEntries == 3     \* most pieces (mappings and separators) in the value of PJ_PROXIES
MaxTokens == 2      \* most (digits)(letter) tokens in a string given to parse_duration or parse_count

None == -1            \* Option::None of a numeric option
\* u64::MAX.  The 64 bits are scaled to 30, the widest that leaves every sum of two values
\* within the integers of the model checker; arithmetic on u64 wraps modulo U64_MAX + 1.
U64_MAX == 1073741823
NoError == "none"     \* Option::None of the error message passed to log_end

\* The clients that connect during a run, by the address ConnectionInfo.client_addr holds.
Conns == {"10.0.0.1:50001", "10.0.0.2:50002"}
\* The listen addresses of the proxy mappings: one ProxyApp, and one gauge, each.
Mappings == {"0.0.0.0:8787", "0.0.0.0:8080"}
NoMapping == "-"
\* The messages of the io::Error values a stream operation fails with.
Errors == {"reset by peer", "broken pipe"}
\* The values a byte of a stream takes.
Bytes == {"a", "b"}

VARIABLES
    \* ---- relay (lib.rs, connection.rs)
    active_connections,     \* ProxyApp.active_connections, one per mapping
    CONNECTION_ID_COUNTER,  \* the static counter of connection.rs
    clients,                \* the clients that connect during the run
    byte_cap,               \* bytes the relays of the run read, all together, at most
    pc,                     \* per connection: where process_new/duplex stands
    app,                    \* per connection: the mapping whose ProxyApp serves it
    conn_info,              \* per connection: ConnectionInfo (id, active_connections)
    stats,                  \* per connection: ConnectionStats
    chunk,                  \* per connection: n of the DuplexEvent being forwarded
    log_start_n,            \* per connection: log_start lines emitted
    log_end_n,              \* per connection: log_end lines emitted
    decrements,             \* per connection: fetch_sub calls performed on the gauge
    emitted,                \* the log line the latest step of a relay emitted, if any
    note,                   \* the debug!/warn! line the latest step emitted, if any
    event,                  \* the DuplexEvent the select! of the latest step produced, if any
    server_session,         \* per connection: the accepted (downstream) stream
    client_session,         \* per connection: the dialed (upstream) stream
    upstream_buf,           \* per connection: upstream_buf[0..n] of duplex
    downstream_buf,         \* per connection: downstream_buf[0..n] of duplex
    \* ---- id manager (id_manager.rs)
    counter,                \* ConnectionIdManager.counter
    last_reset_time,        \* ConnectionIdManager.last_reset_time
    last_reset_count,       \* ConnectionIdManager.last_reset_count
    reset_interval,         \* Option<Duration>
    reset_threshold,        \* Option<u64>
    clock,                  \* Instant::now()
    callers,                \* the threads that call next_id
    ipc,                    \* per caller: where its next_id call stands
    current_count,          \* per caller: local current_count of next_id
    call_cap,               \* next_id calls the callers make during a run
    should,                 \* per caller: what should_reset returned to the call in progress
    last_reset,             \* per caller: local last_reset of should_reset
    now,                    \* per caller: local now of reset
    elapsed,                \* per caller: local elapsed of should_reset, then of reset
    n_returned,             \* next_id calls that have returned
    issued,                 \* the ids returned since the latest counter.store(0), in order
    epoch,                  \* number of counter.store(0) performed so far
    ret,                    \* the return of next_id the latest step performed, if any
    reset_line,             \* the reset line the latest step logged, if any
    \* ---- startup (main.rs) and the pure functions it calls
    input,                  \* the argument of the call, or the arguments and environment of main
    output                  \* what the call returned, or how main went on; NoOutput before

ioVars == <<server_session, client_session, upstream_buf, downstream_buf>>
relayVars == <<active_connections, CONNECTION_ID_COUNTER, clients, byte_cap, pc, app, conn_info, stats,
               chunk, log_start_n, log_end_n, decrements, emitted, note, event, ioVars>>
idVars == <<counter, last_reset_time, last_reset_count, reset_interval, reset_threshold,
            clock, callers, call_cap, ipc, current_count, should, last_reset, now, elapsed,
            n_returned, issued, epoch, ret, reset_line>>
fnVars == <<input, output>>
vars == <<relayVars, idVars, fnVars>>

\* ================================================================ relay
NoInfo == [id |-> None, active_connections |-> 0]
NoLine == [kind |-> "none"]
NoNote == [text |-> "", error |-> NoError]
NoEvent == [conn |-> "", kind |-> "none", n |-> 0]
NoOutput == [kind |-> "none"]
\* No function under study is called and main is not followed.
NoCall == input = <<>> /\ output = NoOutput

\* A stream as the relay sees it: the bytes read from it, the bytes written to it and
\* how many of the written bytes a flush has pushed out.
NewStream == [read |-> <<>>, written |-> <<>>, flushed |-> 0]

\* ConnectionStats::new
ConnectionStats_new == [bytes_sent |-> 0, bytes_received |-> 0]

\* An add_sent that overwrites the counter with the size of the latest chunk.
add_sent_last(s, n) == [s EXCEPT !.bytes_sent = n]

\* An add_sent that adds to both counters.
add_sent_both(s, n) == [bytes_sent |-> s.bytes_sent + n, bytes_received |-> s.bytes_received + n]

\* ConnectionStats::add_sent
add_sent(s, n) == [s EXCEPT !.bytes_sent = @ + n]

\* An add_received that leaves the counter as it is.
add_received_off(s, n) == s

\* ConnectionStats::add_received
add_received(s, n) == [s EXCEPT !.bytes_received = @ + n]

\* Bytes read so far by the relays in progress, in both directions.
RECURSIVE BytesRead(_)
BytesRead(S) ==
    IF S = {} THEN 0
    ELSE LET c == CHOOSE x \in S : TRUE
         IN stats[c].bytes_sent + stats[c].bytes_received + BytesRead(S \ {c})

InitRelayFor(cs, cap) ==
    /\ clients = cs
    /\ byte_cap = cap
    /\ active_connections = [m \in Mappings |-> 0]
    /\ CONNECTION_ID_COUNTER = 0
    /\ pc = [c \in Conns |-> "idle"]
    /\ app = [c \in Conns |-> NoMapping]
    /\ conn_info = [c \in Conns |-> NoInfo]
    /\ stats = [c \in Conns |-> ConnectionStats_new]
    /\ chunk = [c \in Conns |-> 0]
    /\ log_start_n = [c \in Conns |-> 0]
    /\ log_end_n = [c \in Conns |-> 0]
    /\ decrements = [c \in Conns |-> 0]
    /\ emitted = NoLine
    /\ note = NoNote
    /\ event = NoEvent
    /\ server_session = [c \in Conns |-> NewStream]
    /\ client_session = [c \in Conns |-> NewStream]
    /\ upstream_buf = [c \in Conns |-> <<>>]
    /\ downstream_buf = [c \in Conns |-> <<>>]

\* ProxyApp::new for every mapping; no client has connected yet.
InitRelay == InitRelayFor(Conns, MaxBytes)

\* The listener of mapping m accepts a client; process_new awaits the backend dial.
Accept(c, m) ==
    /\ c \in clients
    /\ pc[c] = "idle"
    /\ pc' = [pc EXCEPT ![c] = "dial"]
    /\ app' = [app EXCEPT ![c] = m]
    /\ emitted' = NoLine
    /\ UNCHANGED <<active_connections, CONNECTION_ID_COUNTER, clients, byte_cap, conn_info, stats, chunk,
                   log_start_n, log_end_n, decrements>>
    /\ note' = NoNote
    /\ event' = NoEvent
    /\ UNCHANGED ioVars
    /\ UNCHANGED <<idVars, fnVars>>

\* An Err arm reached after the gauge was incremented for the connection.
DialErr_counted(c) ==
    /\ pc[c] = "dial"
    /\ active_connections' = [active_connections EXCEPT ![app[c]] = @ + 1]
    /\ pc' = [pc EXCEPT ![c] = "refused"]
    /\ app' = [app EXCEPT ![c] = NoMapping]
    /\ emitted' = NoLine
    /\ UNCHANGED <<CONNECTION_ID_COUNTER, clients, byte_cap, conn_info, stats, chunk,
                   log_start_n, log_end_n, decrements>>
    /\ note' = NoNote
    /\ event' = NoEvent
    /\ UNCHANGED ioVars
    /\ UNCHANGED <<idVars, fnVars>>

\* process_new, Err arm: the dial failed, a warning is logged, the task ends.
\* A failed dial that takes a connection id all the same.
DialErr_takes_id(c) ==
    /\ pc[c] = "dial"
    /\ pc' = [pc EXCEPT ![c] = "refused"]
    /\ app' = [app EXCEPT ![c] = NoMapping]
    /\ CONNECTION_ID_COUNTER' = CONNECTION_ID_COUNTER + 1
    /\ emitted' = NoLine
    /\ UNCHANGED <<active_connections, clients, byte_cap, conn_info, stats, chunk,
                   log_start_n, log_end_n, decrements>>
    /\ \E e \in Errors : note' = [text |-> "Failed to create client session", error |-> e]
    /\ event' = NoEvent
    /\ UNCHANGED ioVars
    /\ UNCHANGED <<idVars, fnVars>>

DialErr(c) ==
    /\ pc[c] = "dial"
    /\ pc' = [pc EXCEPT ![c] = "refused"]
    /\ app' = [app EXCEPT ![c] = NoMapping]
    /\ emitted' = NoLine
    /\ UNCHANGED <<active_connections, CONNECTION_ID_COUNTER, clients, byte_cap, conn_info, stats, chunk,
                   log_start_n, log_end_n, decrements>>
    /\ \E e \in Errors : note' = [text |-> "Failed to create client session", error |-> e]
    /\ event' = NoEvent
    /\ UNCHANGED ioVars
    /\ UNCHANGED <<idVars, fnVars>>

\* An Ok arm that keeps what fetch_add returns, the gauge before the increment.
DialOk_before(c) ==
    /\ pc[c] = "dial"
    /\ active_connections' = [active_connections EXCEPT ![app[c]] = @ + 1]
    /\ conn_info' = [conn_info EXCEPT ![c].active_connections = active_connections[app[c]]]
    /\ pc' = [pc EXCEPT ![c] = "admitted"]
    /\ emitted' = NoLine
    /\ note' = NoNote
    /\ event' = NoEvent
    /\ UNCHANGED <<CONNECTION_ID_COUNTER, clients, byte_cap, app, stats, chunk,
                   log_start_n, log_end_n, decrements, ioVars>>
    /\ UNCHANGED <<idVars, fnVars>>

\* process_new, Ok arm: active_connections.fetch_add(1) + 1 is kept as current_connections.
DialOk(c) ==
    /\ pc[c] = "dial"
    /\ active_connections' = [active_connections EXCEPT ![app[c]] = @ + 1]
    /\ conn_info' = [conn_info EXCEPT ![c].active_connections = active_connections[app[c]] + 1]
    /\ pc' = [pc EXCEPT ![c] = "admitted"]
    /\ emitted' = NoLine
    /\ UNCHANGED <<CONNECTION_ID_COUNTER, clients, byte_cap, app, stats, chunk,
                   log_start_n, log_end_n, decrements>>
    /\ note' = NoNote
    /\ event' = NoEvent
    /\ UNCHANGED ioVars
    /\ UNCHANGED <<idVars, fnVars>>

\* ConnectionInfo::new with a counter that is read but not advanced.
ConnectionInfo_new_load(c) ==
    /\ pc[c] = "admitted"
    /\ conn_info' = [conn_info EXCEPT ![c].id = CONNECTION_ID_COUNTER]
    /\ pc' = [pc EXCEPT ![c] = "duplex"]
    /\ emitted' = NoLine
    /\ UNCHANGED <<active_connections, CONNECTION_ID_COUNTER, clients, byte_cap, app, stats, chunk,
                   log_start_n, log_end_n, decrements>>
    /\ note' = NoNote
    /\ event' = NoEvent
    /\ UNCHANGED ioVars
    /\ UNCHANGED <<idVars, fnVars>>

\* ConnectionInfo::new: id = CONNECTION_ID_COUNTER.fetch_add(1).
ConnectionInfo_new(c) ==
    /\ pc[c] = "admitted"
    /\ conn_info' = [conn_info EXCEPT ![c].id = CONNECTION_ID_COUNTER]
    /\ CONNECTION_ID_COUNTER' = CONNECTION_ID_COUNTER + 1
    /\ pc' = [pc EXCEPT ![c] = "duplex"]
    /\ emitted' = NoLine
    /\ UNCHANGED <<active_connections, clients, byte_cap, app, stats, chunk,
                   log_start_n, log_end_n, decrements>>
    /\ note' = NoNote
    /\ event' = NoEvent
    /\ UNCHANGED ioVars
    /\ UNCHANGED <<idVars, fnVars>>

\* ConnectionInfo::log_start: the line it emits.
log_start(c) ==
    [kind |-> "estab",
     id |-> conn_info[c].id,
     active |-> conn_info[c].active_connections,
     proxy_addr |-> app[c]]

\* A duplex that enters its loop without calling log_start.
DuplexStart_silent(c) ==
    /\ pc[c] = "duplex"
    /\ stats' = [stats EXCEPT ![c] = ConnectionStats_new]
    /\ emitted' = NoLine
    /\ pc' = [pc EXCEPT ![c] = "select"]
    /\ note' = NoNote
    /\ event' = NoEvent
    /\ UNCHANGED <<active_connections, CONNECTION_ID_COUNTER, clients, byte_cap, app,
                   conn_info, chunk, log_start_n, log_end_n, decrements, ioVars>>
    /\ UNCHANGED <<idVars, fnVars>>

\* duplex up to its first await: ConnectionStats::new and conn_info.log_start().
DuplexStart(c) ==
    /\ pc[c] = "duplex"
    /\ stats' = [stats EXCEPT ![c] = ConnectionStats_new]
    /\ log_start_n' = [log_start_n EXCEPT ![c] = @ + 1]
    /\ emitted' = log_start(c)
    /\ pc' = [pc EXCEPT ![c] = "select"]
    /\ UNCHANGED <<active_connections, CONNECTION_ID_COUNTER, clients, byte_cap, app, conn_info, chunk,
                   log_end_n, decrements>>
    /\ note' = NoNote
    /\ event' = NoEvent
    /\ UNCHANGED ioVars
    /\ UNCHANGED <<idVars, fnVars>>

\* ConnectionInfo::log_end: the line it emits.
log_end(c, bytes_sent, bytes_received, error, remaining_connections) ==
    [kind |-> "end",
     id |-> conn_info[c].id,
     status |-> IF error # NoError THEN "fail " ELSE "close",
     remaining |-> remaining_connections,
     sent |-> bytes_sent,
     received |-> bytes_received,
     error |-> error]

\* duplex returns and process_new with it: what the task held is dropped.
Drop(c) ==
    /\ pc' = [pc EXCEPT ![c] = "done"]
    /\ app' = [app EXCEPT ![c] = NoMapping]
    /\ conn_info' = [conn_info EXCEPT ![c] = NoInfo]
    /\ stats' = [stats EXCEPT ![c] = ConnectionStats_new]
    /\ chunk' = [chunk EXCEPT ![c] = 0]
    /\ server_session' = [server_session EXCEPT ![c] = NewStream]
    /\ client_session' = [client_session EXCEPT ![c] = NewStream]
    /\ upstream_buf' = [upstream_buf EXCEPT ![c] = <<>>]
    /\ downstream_buf' = [downstream_buf EXCEPT ![c] = <<>>]

\* An exit of duplex that logs the end but leaves the gauge alone.
Terminate_no_decrement(c, error) ==
    /\ log_end_n' = [log_end_n EXCEPT ![c] = @ + 1]
    /\ emitted' = log_end(c, stats[c].bytes_sent, stats[c].bytes_received, error,
                          active_connections[app[c]])
    /\ Drop(c)
    /\ UNCHANGED <<active_connections, decrements>>

\* An exit of duplex that decrements one gauge shared by all the mappings.
Terminate_shared_gauge(c, error) ==
    /\ active_connections' = [m \in Mappings |-> active_connections[m] - 1]
    /\ decrements' = [decrements EXCEPT ![c] = @ + 1]
    /\ log_end_n' = [log_end_n EXCEPT ![c] = @ + 1]
    /\ emitted' = log_end(c, stats[c].bytes_sent, stats[c].bytes_received, error,
                          active_connections[app[c]] - 1)
    /\ Drop(c)

\* An exit of duplex that runs the decrement-and-log block of two exit points.
Terminate_twice(c, error) ==
    /\ active_connections' = [active_connections EXCEPT ![app[c]] = @ - 2]
    /\ decrements' = [decrements EXCEPT ![c] = @ + 2]
    /\ log_end_n' = [log_end_n EXCEPT ![c] = @ + 2]
    /\ emitted' = log_end(c, stats[c].bytes_sent, stats[c].bytes_received, error,
                          active_connections[app[c]] - 2)
    /\ Drop(c)

\* An exit of duplex: remaining = active_connections.fetch_sub(1) - 1; log_end; return.
Terminate(c, error) ==
    /\ active_connections' = [active_connections EXCEPT ![app[c]] = @ - 1]
    /\ decrements' = [decrements EXCEPT ![c] = @ + 1]
    /\ log_end_n' = [log_end_n EXCEPT ![c] = @ + 1]
    /\ emitted' = log_end(c, stats[c].bytes_sent, stats[c].bytes_received, error,
                          active_connections[app[c]] - 1)
    /\ Drop(c)

\* select!: the read of server_session (the accepted client socket) fails.
DownstreamReadErr(c, e) ==
    /\ pc[c] = "select"
    /\ Terminate(c, e)
    /\ UNCHANGED <<CONNECTION_ID_COUNTER, clients, byte_cap, log_start_n>>
    /\ note' = [text |-> "Downstream read error", error |-> e]
    /\ event' = NoEvent
    /\ UNCHANGED <<idVars, fnVars>>

\* select!: the read of client_session (the backend socket) fails.
UpstreamReadErr(c, e) ==
    /\ pc[c] = "select"
    /\ Terminate(c, e)
    /\ UNCHANGED <<CONNECTION_ID_COUNTER, clients, byte_cap, log_start_n>>
    /\ note' = [text |-> "Upstream read error", error |-> e]
    /\ event' = NoEvent
    /\ UNCHANGED <<idVars, fnVars>>

\* DuplexEvent::DownstreamRead(0)
\* A downstream read of 0 bytes after which the relay waits for the upstream read alone.
DownstreamEOF_half_close(c) ==
    /\ pc[c] = "select"
    /\ pc' = [pc EXCEPT ![c] = "half_closed"]
    /\ emitted' = NoLine
    /\ note' = [text |-> "Downstream session closing", error |-> NoError]
    /\ event' = [conn |-> c, kind |-> "DownstreamRead", n |-> 0]
    /\ UNCHANGED <<active_connections, CONNECTION_ID_COUNTER, clients, byte_cap, app, conn_info, stats,
                   chunk, log_start_n, log_end_n, decrements, ioVars>>
    /\ UNCHANGED <<idVars, fnVars>>

DownstreamEOF(c) ==
    /\ pc[c] = "select"
    /\ Terminate(c, NoError)
    /\ UNCHANGED <<CONNECTION_ID_COUNTER, clients, byte_cap, log_start_n>>
    /\ note' = [text |-> "Downstream session closing", error |-> NoError]
    /\ event' = [conn |-> c, kind |-> "DownstreamRead", n |-> 0]
    /\ UNCHANGED <<idVars, fnVars>>

\* An upstream read of 0 bytes that closes one direction only: the loop goes on.
UpstreamEOF_half_close(c) ==
    /\ pc[c] = "select"
    /\ emitted' = NoLine
    /\ note' = [text |-> "Upstream session closing", error |-> NoError]
    /\ event' = [conn |-> c, kind |-> "UpstreamRead", n |-> 0]
    /\ UNCHANGED <<active_connections, CONNECTION_ID_COUNTER, clients, byte_cap, pc, app, conn_info, stats,
                   chunk, log_start_n, log_end_n, decrements, ioVars>>
    /\ UNCHANGED <<idVars, fnVars>>

\* DuplexEvent::UpstreamRead(0)
UpstreamEOF(c) ==
    /\ pc[c] = "select"
    /\ Terminate(c, NoError)
    /\ UNCHANGED <<CONNECTION_ID_COUNTER, clients, byte_cap, log_start_n>>
    /\ note' = [text |-> "Upstream session closing", error |-> NoError]
    /\ event' = [conn |-> c, kind |-> "UpstreamRead", n |-> 0]
    /\ UNCHANGED <<idVars, fnVars>>

\* DuplexEvent::DownstreamRead(n), n > 0: the read has put n bytes into upstream_buf;
\* stats.add_received(n), then write_all is awaited.
DownstreamRead(c, n) ==
    /\ pc[c] = "select"
    /\ BytesRead(Conns) + n <= byte_cap
    /\ \E data \in [1..n -> Bytes] :
          /\ server_session' = [server_session EXCEPT ![c].read = @ \o data]
          /\ upstream_buf' = [upstream_buf EXCEPT ![c] = data]
    /\ stats' = [stats EXCEPT ![c] = add_received(@, n)]
    /\ chunk' = [chunk EXCEPT ![c] = n]
    /\ pc' = [pc EXCEPT ![c] = "client_write"]
    /\ emitted' = NoLine
    /\ UNCHANGED <<active_connections, CONNECTION_ID_COUNTER, clients, byte_cap, app, conn_info,
                   log_start_n, log_end_n, decrements>>
    /\ note' = NoNote
    /\ event' = [conn |-> c, kind |-> "DownstreamRead", n |-> n]
    /\ UNCHANGED <<client_session, downstream_buf>>
    /\ UNCHANGED <<idVars, fnVars>>

\* DuplexEvent::UpstreamRead(n), n > 0: the read has put n bytes into downstream_buf;
\* stats.add_sent(n), then write_all is awaited.
UpstreamRead(c, n) ==
    /\ pc[c] = "select"
    /\ BytesRead(Conns) + n <= byte_cap
    /\ \E data \in [1..n -> Bytes] :
          /\ client_session' = [client_session EXCEPT ![c].read = @ \o data]
          /\ downstream_buf' = [downstream_buf EXCEPT ![c] = data]
    /\ stats' = [stats EXCEPT ![c] = add_sent(@, n)]
    /\ chunk' = [chunk EXCEPT ![c] = n]
    /\ pc' = [pc EXCEPT ![c] = "server_write"]
    /\ emitted' = NoLine
    /\ UNCHANGED <<active_connections, CONNECTION_ID_COUNTER, clients, byte_cap, app, conn_info,
                   log_start_n, log_end_n, decrements>>
    /\ note' = NoNote
    /\ event' = [conn |-> c, kind |-> "UpstreamRead", n |-> n]
    /\ UNCHANGED <<server_session, upstream_buf>>
    /\ UNCHANGED <<idVars, fnVars>>

\* A write_all of upstream_buf[0..n-1]: the slice is one byte short.
ClientWriteOk_short(c) ==
    /\ pc[c] = "client_write"
    /\ pc' = [pc EXCEPT ![c] = "client_flush"]
    /\ emitted' = NoLine
    /\ client_session' = [client_session EXCEPT
          ![c].written = @ \o SubSeq(upstream_buf[c], 1, chunk[c] - 1)]
    /\ note' = NoNote
    /\ event' = NoEvent
    /\ UNCHANGED <<active_connections, CONNECTION_ID_COUNTER, clients, byte_cap, app, conn_info, stats, chunk,
                   log_start_n, log_end_n, decrements>>
    /\ UNCHANGED <<server_session, upstream_buf, downstream_buf>>
    /\ UNCHANGED <<idVars, fnVars>>

\* client_session.write_all(&upstream_buf[0..n]) returned Ok: flush is awaited.
\* A write_all whose Ok goes back to the reads without the flush.
ClientWriteOk_no_flush(c) ==
    /\ pc[c] = "client_write"
    /\ pc' = [pc EXCEPT ![c] = "select"]
    /\ emitted' = NoLine
    /\ UNCHANGED <<active_connections, CONNECTION_ID_COUNTER, clients, byte_cap, app, conn_info, stats, chunk,
                   log_start_n, log_end_n, decrements>>
    /\ client_session' = [client_session EXCEPT
          ![c].written = @ \o SubSeq(upstream_buf[c], 1, chunk[c])]
    /\ note' = NoNote
    /\ event' = NoEvent
    /\ UNCHANGED <<server_session, upstream_buf, downstream_buf>>
    /\ UNCHANGED <<idVars, fnVars>>

ClientWriteOk(c) ==
    /\ pc[c] = "client_write"
    /\ pc' = [pc EXCEPT ![c] = "client_flush"]
    /\ emitted' = NoLine
    /\ UNCHANGED <<active_connections, CONNECTION_ID_COUNTER, clients, byte_cap, app, conn_info, stats, chunk,
                   log_start_n, log_end_n, decrements>>
    /\ client_session' = [client_session EXCEPT
          ![c].written = @ \o SubSeq(upstream_buf[c], 1, chunk[c])]
    /\ note' = NoNote
    /\ event' = NoEvent
    /\ UNCHANGED <<server_session, upstream_buf, downstream_buf>>
    /\ UNCHANGED <<idVars, fnVars>>

\* client_session.write_all(..) returned Err.
ClientWriteErr(c, e) ==
    /\ pc[c] = "client_write"
    /\ Terminate(c, e)
    /\ UNCHANGED <<CONNECTION_ID_COUNTER, clients, byte_cap, log_start_n>>
    /\ note' = [text |-> "Failed to write to client session", error |-> e]
    /\ event' = NoEvent
    /\ UNCHANGED <<idVars, fnVars>>

\* client_session.flush() returned Ok: back to the top of the loop.
ClientFlushOk(c) ==
    /\ pc[c] = "client_flush"
    /\ chunk' = [chunk EXCEPT ![c] = 0]
    /\ pc' = [pc EXCEPT ![c] = "select"]
    /\ emitted' = NoLine
    /\ UNCHANGED <<active_connections, CONNECTION_ID_COUNTER, clients, byte_cap, app, conn_info, stats,
                   log_start_n, log_end_n, decrements>>
    /\ client_session' = [client_session EXCEPT ![c].flushed = Len(client_session[c].written)]
    /\ note' = NoNote
    /\ event' = NoEvent
    /\ UNCHANGED <<server_session, upstream_buf, downstream_buf>>
    /\ UNCHANGED <<idVars, fnVars>>

\* A flush error that is logged and then ignored: the loop goes on.
ClientFlushErr_ignored(c, e) ==
    /\ pc[c] = "client_flush"
    /\ chunk' = [chunk EXCEPT ![c] = 0]
    /\ pc' = [pc EXCEPT ![c] = "select"]
    /\ emitted' = NoLine
    /\ note' = [text |-> "Failed to flush client session", error |-> e]
    /\ event' = NoEvent
    /\ UNCHANGED <<active_connections, CONNECTION_ID_COUNTER, clients, byte_cap, app, conn_info, stats,
                   log_start_n, log_end_n, decrements, ioVars>>
    /\ UNCHANGED <<idVars, fnVars>>

\* client_session.flush() returned Err.
ClientFlushErr(c, e) ==
    /\ pc[c] = "client_flush"
    /\ Terminate(c, e)
    /\ UNCHANGED <<CONNECTION_ID_COUNTER, clients, byte_cap, log_start_n>>
    /\ note' = [text |-> "Failed to flush client session", error |-> e]
    /\ event' = NoEvent
    /\ UNCHANGED <<idVars, fnVars>>

\* The bytes read from the backend written back to client_session, the backend's stream.
ServerWriteOk_wrong_side(c) ==
    /\ pc[c] = "server_write"
    /\ pc' = [pc EXCEPT ![c] = "server_flush"]
    /\ emitted' = NoLine
    /\ client_session' = [client_session EXCEPT
          ![c].written = @ \o SubSeq(downstream_buf[c], 1, chunk[c])]
    /\ note' = NoNote
    /\ event' = NoEvent
    /\ UNCHANGED <<active_connections, CONNECTION_ID_COUNTER, clients, byte_cap, app, conn_info, stats, chunk,
                   log_start_n, log_end_n, decrements>>
    /\ UNCHANGED <<server_session, upstream_buf, downstream_buf>>
    /\ UNCHANGED <<idVars, fnVars>>

\* server_session.write_all(&downstream_buf[0..n]) returned Ok: flush is awaited.
ServerWriteOk(c) ==
    /\ pc[c] = "server_write"
    /\ pc' = [pc EXCEPT ![c] = "server_flush"]
    /\ emitted' = NoLine
    /\ UNCHANGED <<active_connections, CONNECTION_ID_COUNTER, clients, byte_cap, app, conn_info, stats, chunk,
                   log_start_n, log_end_n, decrements>>
    /\ server_session' = [server_session EXCEPT
          ![c].written = @ \o SubSeq(downstream_buf[c], 1, chunk[c])]
    /\ note' = NoNote
    /\ event' = NoEvent
    /\ UNCHANGED <<client_session, upstream_buf, downstream_buf>>
    /\ UNCHANGED <<idVars, fnVars>>

\* server_session.write_all(..) returned Err.
ServerWriteErr(c, e) ==
    /\ pc[c] = "server_write"
    /\ Terminate(c, e)
    /\ UNCHANGED <<CONNECTION_ID_COUNTER, clients, byte_cap, log_start_n>>
    /\ note' = [text |-> "Failed to write to server session", error |-> e]
    /\ event' = NoEvent
    /\ UNCHANGED <<idVars, fnVars>>

\* server_session.flush() returned Ok: back to the top of the loop.
ServerFlushOk(c) ==
    /\ pc[c] = "server_flush"
    /\ chunk' = [chunk EXCEPT ![c] = 0]
    /\ pc' = [pc EXCEPT ![c] = "select"]
    /\ emitted' = NoLine
    /\ UNCHANGED <<active_connections, CONNECTION_ID_COUNTER, clients, byte_cap, app, conn_info, stats,
                   log_start_n, log_end_n, decrements>>
    /\ server_session' = [server_session EXCEPT ![c].flushed = Len(server_session[c].written)]
    /\ note' = NoNote
    /\ event' = NoEvent
    /\ UNCHANGED <<client_session, upstream_buf, downstream_buf>>
    /\ UNCHANGED <<idVars, fnVars>>

\* server_session.flush() returned Err.
ServerFlushErr(c, e) ==
    /\ pc[c] = "server_flush"
    /\ Terminate(c, e)
    /\ UNCHANGED <<CONNECTION_ID_COUNTER, clients, byte_cap, log_start_n>>
    /\ note' = [text |-> "Failed to flush server session", error |-> e]
    /\ event' = NoEvent
    /\ UNCHANGED <<idVars, fnVars>>

RelayNext ==
    \/ \E c \in Conns, m \in Mappings : Accept(c, m)
    \/ \E c \in Conns : DialErr(c)
    \/ \E c \in Conns : DialOk(c)
    \/ \E c \in Conns : ConnectionInfo_new(c)
    \/ \E c \in Conns : DuplexStart(c)
    \/ \E c \in Conns, e \in Errors : DownstreamReadErr(c, e)
    \/ \E c \in Conns, e \in Errors : UpstreamReadErr(c, e)
    \/ \E c \in Conns : DownstreamEOF(c)
    \/ \E c \in Conns : UpstreamEOF(c)
    \/ \E c \in Conns, n \in 1..MaxChunk : DownstreamRead(c, n)
    \/ \E c \in Conns, n \in 1..MaxChunk : UpstreamRead(c, n)
    \/ \E c \in Conns : ClientWriteOk(c)
    \/ \E c \in Conns, e \in Errors : ClientWriteErr(c, e)
    \/ \E c \in Conns : ClientFlushOk(c)
    \/ \E c \in Conns, e \in Errors : ClientFlushErr(c, e)
    \/ \E c \in Conns : ServerWriteOk(c)
    \/ \E c \in Conns, e \in Errors : ServerWriteErr(c, e)
    \/ \E c \in Conns : ServerFlushOk(c)
    \/ \E c \in Conns, e \in Errors : ServerFlushErr(c, e)

\* ================================================================ id manager
Callers == 1..NumCallers
NoReturn == [caller |-> 0, id |-> None, reset |-> FALSE]
NoReset == [reset_count |-> 0, trigger |-> "none", last_id |-> None, elapsed |-> 0]

\* ConnectionIdManager::new, with the configuration main derives from the environment:
\* parse_duration and parse_count return only positive values.
InitId(threads, cap) ==
    /\ counter = 0
    /\ last_reset_time = 0
    /\ last_reset_count = 0
    /\ reset_interval \in {None} \cup (1..MaxInterval)
    /\ reset_threshold \in {None} \cup (1..MaxThreshold)
    /\ clock = 0
    /\ callers = threads
    /\ call_cap = cap
    /\ ipc = [t \in Callers |-> "idle"]
    /\ current_count = [t \in Callers |-> 0]
    /\ should = [t \in Callers |-> "pending"]
    /\ last_reset = [t \in Callers |-> 0]
    /\ now = [t \in Callers |-> 0]
    /\ elapsed = [t \in Callers |-> 0]
    /\ n_returned = 0
    /\ issued = <<>>
    /\ epoch = 0
    /\ ret = NoReturn
    /\ reset_line = NoReset

\* Instant::duration_since: saturates to zero when `earlier` is later than `self`.
duration_since(self, earlier) == IF self >= earlier THEN self - earlier ELSE 0

\* The next_id calls in progress.
InFlight == {t \in Callers : ipc[t] # "idle"}

\* The monotonic clock advances.
Tick ==
    /\ clock < MaxTime
    /\ clock' = clock + 1
    /\ ret' = NoReturn
    /\ reset_line' = NoReset
    /\ UNCHANGED <<counter, last_reset_time, last_reset_count, reset_interval,
                   reset_threshold, callers, call_cap, ipc, current_count, should, last_reset,
                   now, elapsed, n_returned, issued, epoch>>
    /\ UNCHANGED <<relayVars, fnVars>>

\* A should_reset that skips the count threshold.
count_triggered_never(c) == FALSE

\* The count threshold, compared with > where the code compares with >=.
count_triggered_above(c) == reset_threshold # None /\ c > reset_threshold

\* should_reset, first test: the count threshold.
count_triggered(c) == reset_threshold # None /\ c >= reset_threshold

\* The time interval, compared with > where the code compares with >=.
time_triggered_above(e) == reset_interval # None /\ e > reset_interval

\* should_reset, second test: the time interval.
time_triggered(e) == reset_interval # None /\ e >= reset_interval

\* next_id: current_count = counter.load(); should_reset tests the threshold, and
\* returns true at once when it is reached, false at once when no interval is set.
Load(t) ==
    /\ t \in callers
    /\ ipc[t] = "idle"
    /\ n_returned + Cardinality(InFlight) < call_cap
    /\ current_count' = [current_count EXCEPT ![t] = counter]
    /\ IF count_triggered(counter)
         THEN /\ ipc' = [ipc EXCEPT ![t] = "reset"]
              /\ should' = [should EXCEPT ![t] = "reset"]
         ELSE IF reset_interval # None
         THEN /\ ipc' = [ipc EXCEPT ![t] = "should_reset_lock"]
              /\ should' = [should EXCEPT ![t] = "pending"]
         ELSE /\ ipc' = [ipc EXCEPT ![t] = "fetch_add"]
              /\ should' = [should EXCEPT ![t] = "keep"]
    /\ ret' = NoReturn
    /\ reset_line' = NoReset
    /\ UNCHANGED <<counter, last_reset_time, last_reset_count, reset_interval,
                   reset_threshold, clock, callers, call_cap, last_reset, now, elapsed,
                   n_returned, issued, epoch>>
    /\ UNCHANGED <<relayVars, fnVars>>

\* should_reset: last_reset = *self.last_reset_time.lock().unwrap()
ShouldResetLock(t) ==
    /\ ipc[t] = "should_reset_lock"
    /\ last_reset' = [last_reset EXCEPT ![t] = last_reset_time]
    /\ ipc' = [ipc EXCEPT ![t] = "should_reset_now"]
    /\ ret' = NoReturn
    /\ reset_line' = NoReset
    /\ UNCHANGED <<counter, last_reset_time, last_reset_count, reset_interval,
                   reset_threshold, clock, callers, call_cap, current_count, should, now,
                   elapsed, n_returned, issued, epoch>>
    /\ UNCHANGED <<relayVars, fnVars>>

\* should_reset: Instant::now().duration_since(last_reset) >= interval
ShouldResetNow(t) ==
    /\ ipc[t] = "should_reset_now"
    /\ elapsed' = [elapsed EXCEPT ![t] = duration_since(clock, last_reset[t])]
    /\ last_reset' = [last_reset EXCEPT ![t] = 0]
    /\ IF time_triggered(duration_since(clock, last_reset[t]))
         THEN /\ ipc' = [ipc EXCEPT ![t] = "reset"]
              /\ should' = [should EXCEPT ![t] = "reset"]
         ELSE /\ ipc' = [ipc EXCEPT ![t] = "fetch_add"]
              /\ should' = [should EXCEPT ![t] = "keep"]
    /\ ret' = NoReturn
    /\ reset_line' = NoReset
    /\ UNCHANGED <<counter, last_reset_time, last_reset_count, reset_interval,
                   reset_threshold, clock, callers, call_cap, current_count, now,
                   n_returned, issued, epoch>>
    /\ UNCHANGED <<relayVars, fnVars>>

\* reset: let now = Instant::now()
ResetNow(t) ==
    /\ ipc[t] = "reset"
    /\ now' = [now EXCEPT ![t] = clock]
    /\ ipc' = [ipc EXCEPT ![t] = "reset_lock"]
    /\ ret' = NoReturn
    /\ reset_line' = NoReset
    /\ UNCHANGED <<counter, last_reset_time, last_reset_count, reset_interval,
                   reset_threshold, clock, callers, call_cap, current_count, should,
                   last_reset, elapsed, n_returned, issued, epoch>>
    /\ UNCHANGED <<relayVars, fnVars>>

\* reset: elapsed = now.duration_since(*self.last_reset_time.lock().unwrap())
ResetLock(t) ==
    /\ ipc[t] = "reset_lock"
    /\ elapsed' = [elapsed EXCEPT ![t] = duration_since(now[t], last_reset_time)]
    /\ ipc' = [ipc EXCEPT ![t] = "reset_count"]
    /\ ret' = NoReturn
    /\ reset_line' = NoReset
    /\ UNCHANGED <<counter, last_reset_time, last_reset_count, reset_interval,
                   reset_threshold, clock, callers, call_cap, current_count, should,
                   last_reset, now, n_returned, issued, epoch>>
    /\ UNCHANGED <<relayVars, fnVars>>

\* reset: the trigger named in the log line.
trigger(by_count, by_time) ==
    IF by_count /\ ~by_time THEN "count threshold reached"
    ELSE IF ~by_count /\ by_time THEN "time interval elapsed"
    ELSE IF by_count /\ by_time THEN "both count and time triggered"
    ELSE "unknown trigger"

\* reset: reset_count = last_reset_count.fetch_add(1) + 1, by_count, by_time, info!(..)
ResetCount(t) ==
    /\ ipc[t] = "reset_count"
    /\ last_reset_count' = last_reset_count + 1
    /\ reset_line' =
          [reset_count |-> last_reset_count + 1,
           trigger |-> trigger(count_triggered(current_count[t]), time_triggered(elapsed[t])),
           last_id |-> current_count[t],
           elapsed |-> elapsed[t]]
    /\ ipc' = [ipc EXCEPT ![t] = "reset_store"]
    /\ ret' = NoReturn
    /\ UNCHANGED <<counter, last_reset_time, reset_interval, reset_threshold, clock,
                   callers, call_cap, current_count, should, last_reset, now, elapsed,
                   n_returned, issued, epoch>>
    /\ UNCHANGED <<relayVars, fnVars>>

\* reset: self.counter.store(0)
ResetStore(t) ==
    /\ ipc[t] = "reset_store"
    /\ counter' = 0
    /\ epoch' = epoch + 1
    /\ issued' = <<>>
    /\ ipc' = [ipc EXCEPT ![t] = "reset_stamp"]
    /\ ret' = NoReturn
    /\ reset_line' = NoReset
    /\ UNCHANGED <<last_reset_time, last_reset_count, reset_interval, reset_threshold,
                   clock, callers, call_cap, current_count, should, last_reset, now, elapsed,
                   n_returned>>
    /\ UNCHANGED <<relayVars, fnVars>>

\* reset: *self.last_reset_time.lock().unwrap() = now
ResetStamp(t) ==
    /\ ipc[t] = "reset_stamp"
    /\ last_reset_time' = now[t]
    /\ ipc' = [ipc EXCEPT ![t] = "fetch_add"]
    /\ ret' = NoReturn
    /\ reset_line' = NoReset
    /\ UNCHANGED <<counter, last_reset_count, reset_interval, reset_threshold,
                   clock, callers, call_cap, current_count, should, last_reset, now, elapsed,
                   n_returned, issued, epoch>>
    /\ UNCHANGED <<relayVars, fnVars>>

\* The call of t returns id: its locals go out of scope.
Return(t, id) ==
    /\ ret' = [caller |-> t, id |-> id, reset |-> should[t] = "reset"]
    /\ n_returned' = n_returned + 1
    /\ issued' = Append(issued, id)
    /\ ipc' = [ipc EXCEPT ![t] = "idle"]
    /\ current_count' = [current_count EXCEPT ![t] = 0]
    /\ should' = [should EXCEPT ![t] = "pending"]
    /\ now' = [now EXCEPT ![t] = 0]
    /\ elapsed' = [elapsed EXCEPT ![t] = 0]
    /\ reset_line' = NoReset

\* A load where the code calls fetch_add: the counter is returned but not advanced.
FetchAdd_load(t) ==
    /\ ipc[t] = "fetch_add"
    /\ Return(t, counter)
    /\ UNCHANGED <<counter, last_reset_time, last_reset_count, reset_interval,
                   reset_threshold, clock, callers, call_cap, last_reset, epoch>>
    /\ UNCHANGED <<relayVars, fnVars>>

\* A fetch_add that returns the value after the increment.
FetchAdd_returns_new(t) ==
    /\ ipc[t] = "fetch_add"
    /\ counter' = counter + 1
    /\ Return(t, counter + 1)
    /\ UNCHANGED <<last_reset_time, last_reset_count, reset_interval, reset_threshold,
                   clock, callers, call_cap, last_reset, epoch>>
    /\ UNCHANGED <<relayVars, fnVars>>

\* next_id: return self.counter.fetch_add(1), on both paths.
FetchAdd(t) ==
    /\ ipc[t] = "fetch_add"
    /\ counter' = counter + 1
    /\ Return(t, counter)
    /\ UNCHANGED <<last_reset_time, last_reset_count, reset_interval, reset_threshold,
                   clock, callers, call_cap, last_reset, epoch>>
    /\ UNCHANGED <<relayVars, fnVars>>

IdNext ==
    \/ Tick
    \/ \E t \in Callers : Load(t)
    \/ \E t \in Callers : ShouldResetLock(t)
    \/ \E t \in Callers : ShouldResetNow(t)
    \/ \E t \in Callers : ResetNow(t)
    \/ \E t \in Callers : ResetLock(t)
    \/ \E t \in Callers : ResetCount(t)
    \/ \E t \in Callers : ResetStore(t)
    \/ \E t \in Callers : ResetStamp(t)
    \/ \E t \in Callers : FetchAdd(t)

\* ================================================================ strings and results
\* A &str or String is modelled as the sequence of its characters.
\* All the strings over the characters `chars` of at most n characters.
StringsUpTo(chars, n) == UNION {[1..k -> chars] : k \in 0..n}

\* Result::Ok and Result::Err
Ok(v) == [kind |-> "Ok", value |-> v]
Err(e) == [kind |-> "Err", error |-> e]

\* Strings of up to n tokens, each token a member of `nums` followed by a member of `tails`.
RECURSIVE concat(_)
concat(parts) == IF parts = <<>> THEN <<>> ELSE Head(parts) \o concat(Tail(parts))
TokenStrings(nums, tails, n) ==
    LET tokens == {num \o tail : num \in nums, tail \in tails}
    IN {concat(ts) : ts \in StringsUpTo(tokens, n)}

\* char::is_ascii_digit, and the value of a digit
AsciiDigits == {"0", "1", "2", "3", "4", "5", "6", "7", "8", "9"}
digit(ch) == CHOOSE d \in 0..9 : <<"0", "1", "2", "3", "4", "5", "6", "7", "8", "9">>[d + 1] = ch

\* char::is_whitespace, for the characters of the model
WhiteSpace == {" "}

\* str::trim
RECURSIVE trim_start(_)
trim_start(s) == IF s # <<>> /\ Head(s) \in WhiteSpace THEN trim_start(Tail(s)) ELSE s
RECURSIVE trim_end(_)
trim_end(s) ==
    IF s # <<>> /\ s[Len(s)] \in WhiteSpace THEN trim_end(SubSeq(s, 1, Len(s) - 1)) ELSE s
trim(s) == trim_end(trim_start(s))

\* A to_lowercase that leaves the case as it is.
to_lowercase_off(s) == s

\* str::to_lowercase, for ASCII
UpperCase == <<"A", "B", "C", "D", "E", "F", "G", "H", "I", "J", "K", "L", "M",
               "N", "O", "P", "Q", "R", "S", "T", "U", "V", "W", "X", "Y", "Z">>
LowerCase == <<"a", "b", "c", "d", "e", "f", "g", "h", "i", "j", "k", "l", "m",
               "n", "o", "p", "q", "r", "s", "t", "u", "v", "w", "x", "y", "z">>
to_lowercase(s) ==
    [i \in 1..Len(s) |->
        IF \E k \in 1..26 : UpperCase[k] = s[i]
        THEN LowerCase[CHOOSE k \in 1..26 : UpperCase[k] = s[i]]
        ELSE s[i]]

\* <u64 as FromStr>::from_str on the digits that follow the optional sign: the value, or
\* None when it does not fit (IntErrorKind::PosOverflow).
RECURSIVE digits_value(_, _)
digits_value(acc, ds) ==
    IF ds = <<>> THEN acc
    ELSE IF acc > (U64_MAX - digit(Head(ds))) \div 10 THEN None
    ELSE digits_value(acc * 10 + digit(Head(ds)), Tail(ds))

\* str::parse::<u64>: an optional '+' and one or more ASCII digits; None for Err(_).
parse_u64(s) ==
    LET ds == IF s # <<>> /\ Head(s) = "+" THEN Tail(s) ELSE s
    IN IF ds = <<>> \/ \E i \in 1..Len(ds) : ds[i] \notin AsciiDigits
       THEN None
       ELSE digits_value(0, ds)

\* u64 multiplication and addition as the machine performs them, modulo U64_MAX + 1
RECURSIVE wrapping_mul(_, _)
wrapping_mul(a, b) ==
    IF b = 0 THEN 0
    ELSE LET half == wrapping_mul(a, b \div 2)
         IN (((2 * half) % (U64_MAX + 1)) + (b % 2) * a) % (U64_MAX + 1)
wrapping_add(a, b) == (a + b) % (U64_MAX + 1)

\* A checked_mul that multiplies as `*` does in a build without overflow checks.
checked_mul_wrapping(a, b) == wrapping_mul(a, b)

\* u64::checked_mul: None on overflow
checked_mul(a, b) == IF b # 0 /\ a > U64_MAX \div b THEN None ELSE a * b

\* A panic of the thread
Panic(e) == [kind |-> "panic", error |-> e]

\* A split that leaves the empty parts out.
RECURSIVE split_nonempty(_, _)
split_nonempty(s, seps) ==
    IF \A i \in 1..Len(s) : s[i] \notin seps
    THEN IF s = <<>> THEN <<>> ELSE <<s>>
    ELSE LET i == CHOOSE i \in 1..Len(s) : s[i] \in seps /\ \A j \in 1..(i - 1) : s[j] \notin seps
             head == SubSeq(s, 1, i - 1)
         IN (IF head = <<>> THEN <<>> ELSE <<head>>)
                \o split_nonempty(SubSeq(s, i + 1, Len(s)), seps)

\* str::split(..).collect(): the parts of s between the separator characters, the empty
\* parts included; a string with no separator is its own single part.
RECURSIVE split(_, _)
split(s, seps) ==
    IF \A i \in 1..Len(s) : s[i] \notin seps
    THEN <<s>>
    ELSE LET i == CHOOSE i \in 1..Len(s) : s[i] \in seps /\ \A j \in 1..(i - 1) : s[j] \notin seps
         IN <<SubSeq(s, 1, i - 1)>> \o split(SubSeq(s, i + 1, Len(s)), seps)

\* ================================================================ parse_proxy_mapping
\* A format! that puts the second field first.
host_port_swapped(a, b) == b \o <<":">> \o a

\* format!("{}:{}", a, b)
host_port(a, b) == a \o <<":">> \o b

\* parse_proxy_mapping
parse_proxy_mapping(s) ==
    LET parts == split(s, {":"})
    IN IF Len(parts) # 4
       THEN Err("Invalid proxy mapping format. Expected format: listen_ip:listen_port:proxy_ip:proxy_port")
       ELSE Ok([listen_addr |-> host_port(parts[1], parts[2]),
                proxy_addr |-> host_port(parts[3], parts[4])])

\* The strings given to parse_proxy_mapping.
MappingChars == {"h", "8", ":"}
MappingInputs == StringsUpTo(MappingChars, MaxMappingLen)

\* A call of parse_proxy_mapping.
ParseProxyMapping ==
    /\ output = NoOutput
    /\ output' = parse_proxy_mapping(input)
    /\ UNCHANGED input
    /\ UNCHANGED <<relayVars, idVars>>

\* ================================================================ parse_duration
\* The multiplier of a unit character, None for `_`
multiplier(ch) ==
    CASE ch = "d" -> 86400
      [] ch = "h" -> 3600
      [] ch = "m" -> 60
      [] ch = "s" -> 1
      [] OTHER -> None

\* The for loop of parse_duration over the characters `rest`, and the checks after it.
\* `*` and `+=` on u64 panic on overflow in a build with overflow checks (the default of
\* the dev and test profiles) and wrap in a build without (the default of release).
RECURSIVE duration_loop(_, _, _, _)
duration_loop(rest, total_seconds, current_num, overflow_checks) ==
    IF rest = <<>>
    THEN IF current_num # <<>> THEN Err("Duration must include a unit (d/h/m/s)")
         ELSE IF total_seconds = 0 THEN Err("Duration must be greater than 0")
         ELSE Ok(total_seconds)
    ELSE LET ch == Head(rest)
         IN IF ch \in AsciiDigits
            THEN duration_loop(Tail(rest), total_seconds, Append(current_num, ch),
                               overflow_checks)
            ELSE IF current_num = <<>>
            THEN Err("Invalid duration format: missing number before")
            ELSE LET num == parse_u64(current_num)
                 IN IF num = None THEN Err("Invalid number")
                    ELSE IF multiplier(ch) = None THEN Err("Invalid time unit")
                    ELSE IF overflow_checks /\ checked_mul(num, multiplier(ch)) = None
                    THEN Panic("attempt to multiply with overflow")
                    ELSE LET product == wrapping_mul(num, multiplier(ch))
                         IN IF overflow_checks /\ total_seconds > U64_MAX - product
                            THEN Panic("attempt to add with overflow")
                            ELSE duration_loop(Tail(rest),
                                               wrapping_add(total_seconds, product),
                                               <<>>, overflow_checks)

\* parse_duration; Ok carries the seconds given to Duration::from_secs
parse_duration(s, overflow_checks) ==
    LET t == to_lowercase(trim(s))
    IN IF t = <<>> THEN Err("Empty duration string")
       ELSE duration_loop(t, 0, <<>>, overflow_checks)

\* The strings given to parse_duration: 12427 days fit in a u64 of the model, 12428 days
\* do not, and 99999999999 is no u64.
DurationNums == {<<>>, <<"0">>, <<"2">>, <<"1", "2", "4", "2", "7">>,
                 <<"1", "2", "4", "2", "8">>,
                 <<"9", "9", "9", "9", "9", "9", "9", "9", "9", "9", "9">>}
DurationTails == {<<>>, <<"d">>, <<"h">>, <<"m">>, <<"s">>, <<"S">>, <<"x">>, <<" ">>}
DurationInputs == TokenStrings(DurationNums, DurationTails, MaxTokens)

\* A call of parse_duration, in a build with or without overflow checks.
ParseDuration ==
    /\ output = NoOutput
    /\ \E overflow_checks \in BOOLEAN : output' = parse_duration(input, overflow_checks)
    /\ UNCHANGED input
    /\ UNCHANGED <<relayVars, idVars>>

\* ================================================================ parse_count
\* A table of suffixes with binary units.
count_unit_binary(last) ==
    CASE last = "k" -> 1024
      [] last = "m" -> 1048576
      [] last = "g" -> 1073741824
      [] OTHER -> 1

\* The unit of the ends_with chain of parse_count, from the last character of the string
count_unit(last) ==
    CASE last = "k" -> 1000
      [] last = "m" -> 1000000
      [] last = "g" -> 1000000000
      [] OTHER -> 1

\* parse_count
parse_count(s) ==
    LET t == to_lowercase(trim(s))
    IN IF t = <<>> THEN Err("Empty count string")
       ELSE LET last == t[Len(t)]
                unit == count_unit(last)
                num_str == IF last \in {"k", "m", "g"} THEN SubSeq(t, 1, Len(t) - 1) ELSE t
                num == parse_u64(num_str)
            IN IF num = None THEN Err("Invalid number")
               ELSE IF num = 0 THEN Err("Count must be greater than 0")
               ELSE IF checked_mul(num, unit) = None THEN Err("Count value too large")
               ELSE Ok(checked_mul(num, unit))

\* The strings given to parse_count: 1g fits in a u64 of the model, 2g and 1074m do not,
\* and 9999999999 is no u64.
CountNums == {<<>>, <<"0">>, <<"1">>, <<"2">>, <<"1", "0", "7", "4">>,
              <<"9", "9", "9", "9", "9", "9", "9", "9", "9", "9">>}
CountTails == {<<>>, <<"k">>, <<"m">>, <<"g">>, <<"G">>, <<"+">>, <<"-">>, <<"x">>, <<" ">>}
CountInputs == TokenStrings(CountNums, CountTails, MaxTokens)

\* A call of parse_count.
ParseCount ==
    /\ output = NoOutput
    /\ output' = parse_count(input)
    /\ UNCHANGED input
    /\ UNCHANGED <<relayVars, idVars>>

\* ================================================================ format_bytes
KB == 1024
MB == KB * 1024
GB == MB * 1024

\* format!("{:.1}", bytes as f64 / unit as f64) for a unit that is a power of 1024: the
\* quotient with one decimal, rounded to nearest, ties to the even digit.  The division by
\* a power of two is exact in f64.  Computed in two limbs of the remainder to stay within
\* the integers of the model checker.
fixed1(bytes, unit) ==
    LET limb == unit \div 1024
        rem == bytes % unit
        high == rem \div limb
        low == rem % limb
        n == (high * 10) + ((low * 10) \div limb)
        digit1 == n \div 1024
        rest == ((n % 1024) * limb) + ((low * 10) % limb)
        up == IF 2 * rest > unit \/ (2 * rest = unit /\ digit1 % 2 = 1) THEN 1 ELSE 0
        tenths == (bytes \div unit) * 10 + digit1 + up
    IN [whole |-> tenths \div 10, tenth |-> tenths % 10]

\* The string "{whole}.{tenth} {unit}", or "{whole} {unit}" when tenth is None
Formatted(number, unit) == [whole |-> number.whole, tenth |-> number.tenth, unit |-> unit]

\* A format_bytes whose tiers end one byte later.
format_bytes_inclusive(bytes) ==
    IF bytes <= KB THEN Formatted([whole |-> bytes, tenth |-> None], "B")
    ELSE IF bytes <= MB THEN Formatted(fixed1(bytes, KB), "KB")
    ELSE IF bytes <= GB THEN Formatted(fixed1(bytes, MB), "MB")
    ELSE Formatted(fixed1(bytes, GB), "GB")

\* format_bytes
format_bytes(bytes) ==
    IF bytes < KB THEN Formatted([whole |-> bytes, tenth |-> None], "B")
    ELSE IF bytes < MB THEN Formatted(fixed1(bytes, KB), "KB")
    ELSE IF bytes < GB THEN Formatted(fixed1(bytes, MB), "MB")
    ELSE Formatted(fixed1(bytes, GB), "GB")

\* The byte counts given to format_bytes: those around the tier boundaries, and some
\* quarters of each unit.  format_bytes does no arithmetic on its u64, so the counts are
\* taken as they are, up to 2^31 - 1.
ByteCounts ==
    (0..MaxDelta)
    \cup {t - d : t \in {KB, MB, GB}, d \in 1..MaxDelta}
    \cup {t + d : t \in {KB, MB, GB}, d \in 0..MaxDelta}
    \cup {(t \div 4) * q : t \in {KB, MB, GB}, q \in 1..7}
    \cup {2147483647}

\* A call of format_bytes.
FormatBytes ==
    /\ output = NoOutput
    /\ output' = format_bytes(input)
    /\ UNCHANGED input
    /\ UNCHANGED <<relayVars, idVars>>

\* ================================================================ main
\* env::var: an environment variable that is not set, or is set to a value
Unset == [set |-> FALSE, value |-> <<>>]
Set(v) == [set |-> TRUE, value |-> v]

\* The for loop over the entries of PJ_PROXIES: entries that are empty once trimmed are
\* passed over, entries parse_proxy_mapping rejects are logged with error!, the others
\* are pushed to proxy_mappings.
RECURSIVE env_entries(_)
env_entries(parts) ==
    IF parts = <<>> THEN [mappings |-> <<>>, rejected |-> <<>>]
    ELSE LET trimmed == trim(Head(parts))
             parsed == parse_proxy_mapping(trimmed)
             others == env_entries(Tail(parts))
         IN IF trimmed = <<>> THEN others
            ELSE IF parsed.kind = "Ok"
            THEN [others EXCEPT !.mappings = <<parsed.value>> \o @]
            ELSE [others EXCEPT !.rejected = <<trimmed>> \o @]

\* A choice of mappings that adds those of PJ_PROXIES to those of the command line.
proxy_mappings_merged(in) ==
    LET found == IF in.PJ_PROXIES.set
                 THEN env_entries(split(in.PJ_PROXIES.value, {",", ";"}))
                 ELSE [mappings |-> <<>>, rejected |-> <<>>]
    IN [source |-> "merged", mappings |-> in.proxy \o found.mappings,
        rejected |-> found.rejected]

\* The proxy_mappings of main once its if / else if chain is through, with the branch
\* taken and the strings logged as rejected.
proxy_mappings(in) ==
    IF in.proxy # <<>>
    THEN [source |-> "command line", mappings |-> in.proxy, rejected |-> <<>>]
    ELSE IF in.PJ_PROXIES.set
    THEN LET found == env_entries(split(in.PJ_PROXIES.value, {",", ";"}))
         IN [source |-> "PJ_PROXIES", mappings |-> found.mappings,
             rejected |-> found.rejected]
    ELSE IF in.PJ_PROXY.set
    THEN LET parsed == parse_proxy_mapping(in.PJ_PROXY.value)
         IN IF parsed.kind = "Ok"
            THEN [source |-> "PJ_PROXY", mappings |-> <<parsed.value>>, rejected |-> <<>>]
            ELSE [source |-> "PJ_PROXY", mappings |-> <<>>,
                  rejected |-> <<in.PJ_PROXY.value>>]
    ELSE [source |-> "none", mappings |-> <<>>, rejected |-> <<>>]

\* How main ends: process::exit(status), a panic, or server.run_forever() with the
\* services added and the id manager they share.
Exit(status, chosen) ==
    [kind |-> "exit", status |-> status, source |-> chosen.source,
     mappings |-> chosen.mappings, rejected |-> chosen.rejected, services |-> <<>>,
     reset_interval |-> None, reset_threshold |-> None]
RunForever(chosen, interval, count) ==
    [kind |-> "run_forever", status |-> None, source |-> chosen.source,
     mappings |-> chosen.mappings, rejected |-> chosen.rejected,
     services |-> chosen.mappings, reset_interval |-> interval, reset_threshold |-> count]

Abort(chosen, error) ==
    [kind |-> "panic", status |-> 101, source |-> chosen.source,
     mappings |-> chosen.mappings, rejected |-> chosen.rejected, services |-> <<>>,
     reset_interval |-> None, reset_threshold |-> None, error |-> error]

\* main, from the parsed arguments on.  server_ok: whether Server::new returns Ok.
main(in, overflow_checks, server_ok) ==
    LET chosen == proxy_mappings(in)
        duration == parse_duration(in.PJ_CONN_ID_RESET_INTERVAL.value, overflow_checks)
        count == parse_count(in.PJ_CONN_ID_RESET_COUNT.value)
        interval_set == in.PJ_CONN_ID_RESET_INTERVAL.set
        count_set == in.PJ_CONN_ID_RESET_COUNT.set
    IN IF chosen.mappings = <<>> THEN Exit(1, chosen)
       ELSE IF interval_set /\ duration.kind = "panic" THEN Abort(chosen, duration.error)
       ELSE IF ~server_ok THEN Exit(1, chosen)
       ELSE RunForever(chosen,
                       IF interval_set /\ duration.kind = "Ok" THEN duration.value ELSE None,
                       IF count_set /\ count.kind = "Ok" THEN count.value ELSE None)

\* The strings of mappings in the arguments and the environment of a run.
MappingA == <<"a", ":", "1", ":", "b", ":", "2">>
MappingB == <<"c", ":", "3", ":", "d", ":", "4">>
MappingC == <<"e", ":", "5", ":", "f", ":", "6">>
NotAMapping == <<"a", ":", "1">>
ProxiesPieces == {MappingA, NotAMapping, <<",">>, <<";">>, <<" ">>}

\* A duration that ends in a digit, after a pair whose product is beyond U64_MAX.
OverflowThenDigit == <<"1", "2", "4", "2", "8", "d", "2">>

\* The arguments, as clap leaves them in Args, and the environment of a run.
MainInputs ==
    [proxy : {<<>>, <<parse_proxy_mapping(MappingB).value>>,
              <<parse_proxy_mapping(MappingB).value, parse_proxy_mapping(MappingA).value>>},
     PJ_PROXIES : {Unset} \cup {Set(concat(ps)) : ps \in StringsUpTo(ProxiesPieces, MaxEntries)},
     PJ_PROXY : {Unset, Set(MappingC), Set(NotAMapping)},
     PJ_CONN_ID_RESET_INTERVAL : {Unset, Set(<<"2", "s">>), Set(<<"2">>), Set(OverflowThenDigit)},
     PJ_CONN_ID_RESET_COUNT : {Unset, Set(<<"2", "k">>), Set(<<"0">>)}]

\* A run of main.
Main ==
    /\ output = NoOutput
    /\ \E overflow_checks \in BOOLEAN, server_ok \in BOOLEAN :
            output' = main(input, overflow_checks, server_ok)
    /\ UNCHANGED input
    /\ UNCHANGED <<relayVars, idVars>>

\* ================================================================ specifications
\* The proxy: connections of all mappings, relayed concurrently. process_new and duplex
\* make no call on the id manager, which is left as main builds it without reset options.
Init ==
    /\ InitRelay
    /\ InitId({}, 0)
    /\ reset_interval = None
    /\ reset_threshold = None
    /\ NoCall
Next == RelayNext
Spec == Init /\ [][Next]_vars

\* The id manager under concurrent callers of next_id.
InitConcurrent == InitRelay /\ InitId(Callers, MaxCalls) /\ NoCall
NextId == IdNext
SpecConcurrent == InitConcurrent /\ [][NextId]_vars

\* The proxy relaying for a single client, with more traffic.
InitOne ==
    /\ InitRelayFor({CHOOSE c \in Conns : TRUE}, MaxOneBytes)
    /\ InitId({}, 0)
    /\ reset_interval = None
    /\ reset_threshold = None
    /\ NoCall
SpecOne == InitOne /\ [][Next]_vars

\* The relays of tasks the runtime keeps polling, over streams that answer: duplex goes
\* from its call to the loop; a write_all and a flush that are awaited complete, with Ok
\* or with Err; and of the reads the select awaits time and again, one returns 0 bytes
\* or an error at last.
WriteCompletes(c) ==
    \/ ClientWriteOk(c) \/ ServerWriteOk(c)
    \/ \E e \in Errors : ClientWriteErr(c, e) \/ ServerWriteErr(c, e)
FlushCompletes(c) ==
    \/ ClientFlushOk(c) \/ ServerFlushOk(c)
    \/ \E e \in Errors : ClientFlushErr(c, e) \/ ServerFlushErr(c, e)
ReadEnds(c) ==
    \/ DownstreamEOF(c) \/ UpstreamEOF(c)
    \/ \E e \in Errors : DownstreamReadErr(c, e) \/ UpstreamReadErr(c, e)
Fairness ==
    \A c \in Conns :
        /\ WF_vars(DuplexStart(c))
        /\ WF_vars(WriteCompletes(c))
        /\ WF_vars(FlushCompletes(c))
        /\ SF_vars(ReadEnds(c))
SpecFair == Init /\ [][Next]_vars /\ Fairness

\* The id manager under a single caller of next_id.
InitSingle == InitRelay /\ InitId({1}, MaxSingleCalls) /\ NoCall
SpecSingle == InitSingle /\ [][NextId]_vars

\* The proxy, as it stands before it accepts its first connection.
InitIdle ==
    /\ InitRelay
    /\ InitId({}, 0)
    /\ reset_interval = None
    /\ reset_threshold = None
    /\ output = NoOutput

\* parse_proxy_mapping, called once on each of the strings of MappingInputs.
InitMapping == InitIdle /\ input \in MappingInputs
NextMapping == ParseProxyMapping
SpecMapping == InitMapping /\ [][NextMapping]_vars

\* parse_duration, called once on each of the strings of DurationInputs.
InitDuration == InitIdle /\ input \in DurationInputs
NextDuration == ParseDuration
SpecDuration == InitDuration /\ [][NextDuration]_vars

\* parse_count, called once on each of the strings of CountInputs.
InitCount == InitIdle /\ input \in CountInputs
NextCount == ParseCount
SpecCount == InitCount /\ [][NextCount]_vars

\* format_bytes, called once on each of the counts of ByteCounts.
InitFormat == InitIdle /\ input \in ByteCounts
NextFormat == FormatBytes
SpecFormat == InitFormat /\ [][NextFormat]_vars

\* main, run once on each of the arguments and environments of MainInputs.
InitMain == InitIdle /\ input \in MainInputs
NextMain == Main
SpecMain == InitMain /\ [][NextMain]_vars

\* ================================================================ properties
\* The connections whose backend dial succeeded and whose duplex run has not returned.
Active == {c \in Conns : pc[c] \in {"admitted", "duplex", "select", "client_write",
                                     "client_flush", "server_write", "server_flush"}}

\* C1: a duplex run that has terminated, by whichever exit, has decremented the gauge
\* exactly once and emitted log_end exactly once; before it terminates it has done neither.
C1_TeardownExactlyOnce ==
    \A c \in Conns :
        /\ pc[c] = "done" => decrements[c] = 1 /\ log_end_n[c] = 1
        /\ pc[c] # "done" => decrements[c] = 0 /\ log_end_n[c] = 0

\* A relay has left through an error exit and another through an EOF or error exit.
C1_Witness ==
    /\ \A c \in Conns : pc[c] = "done" /\ decrements[c] = 1
    /\ emitted.kind = "end"
    /\ emitted.status = "fail "

\* C2: the gauge of every mapping equals the number of its connections that were
\* admitted and have not terminated, and it is never negative (no u64 underflow).
C2_GaugeCountsActive ==
    \A m \in Mappings :
        /\ active_connections[m] = Cardinality({c \in Active : app[c] = m})
        /\ active_connections[m] >= 0

\* One relay of a mapping has just terminated while another of the same mapping runs on.
C2_Witness ==
    \E c \in Conns, d \in Conns :
        /\ pc[c] = "done"
        /\ pc[d] = "select"
        /\ active_connections[app[d]] = 1
        /\ emitted.kind = "end"
        /\ emitted.remaining = 1

\* C3: per relay, the decrements performed never exceed the start logs emitted, neither
\* exceeds 1, and once the task has ended (relayed or refused) the two are equal.
C3_DecrementsMatchStarts ==
    \A c \in Conns :
        /\ decrements[c] <= log_start_n[c]
        /\ log_start_n[c] <= 1
        /\ pc[c] \in {"done", "refused"} => decrements[c] = log_start_n[c]

\* One connection was refused (0 and 0), another was relayed to its end (1 and 1).
C3_Witness ==
    \E c \in Conns, d \in Conns :
        /\ pc[c] = "refused" /\ log_start_n[c] = 0 /\ decrements[c] = 0
        /\ pc[d] = "done" /\ log_start_n[d] = 1 /\ decrements[d] = 1

C5_UniqueBetweenResets ==
    \A i \in DOMAIN issued, j \in DOMAIN issued : i # j => issued[i] # issued[j]

\* Two calls have returned after a reset, with no reset in between.
C5_Witness == epoch >= 1 /\ Len(issued) >= 2

\* C6: a call that went through reset() returns 0 and leaves the counter at 1.
C6_ResetCallReturnsZero ==
    (ret.caller # 0 /\ ret.reset) => (ret.id = 0 /\ counter = 1)

\* C7: next_id calls are serialized. With no interval configured the decision depends on
\* the counter alone, so the ids returned are those of a sequential execution of the
\* calls: the k-th id returned (k = 0, 1, ..) is k, or k mod threshold if one is set.
C7_Serialized ==
    (ret.caller # 0 /\ reset_interval = None) =>
        ret.id = IF reset_threshold = None THEN n_returned - 1
                 ELSE (n_returned - 1) % reset_threshold

\* C8: single caller, threshold T, no interval: the k-th call returns k mod T, and it is
\* the calls that find the counter at T that reset.
C8_CountResetSequence ==
    (ret.caller # 0 /\ reset_interval = None /\ reset_threshold # None) =>
        /\ ret.id = (n_returned - 1) % reset_threshold
        /\ ret.reset <=> (n_returned > 1 /\ (n_returned - 1) % reset_threshold = 0)
        /\ last_reset_count = (n_returned - 1) \div reset_threshold

\* With threshold 2, the fifth call has reset and returned 0.
C8_Witness ==
    /\ reset_interval = None
    /\ reset_threshold = 2
    /\ n_returned = 5
    /\ ret.id = 0
    /\ ret.reset

\* C9: with neither policy configured no reset is ever performed, and the ids returned
\* are 0, 1, 2, .. in order of return, whatever the interleaving of the callers.
C9_NoPolicyOnlyIncrements ==
    (reset_interval = None /\ reset_threshold = None) =>
        /\ \A t \in Callers : ipc[t] \in {"idle", "fetch_add"}
        /\ last_reset_count = 0
        /\ epoch = 0
        /\ counter = n_returned
        /\ Len(issued) = n_returned
        /\ \A i \in DOMAIN issued : issued[i] = i - 1
        /\ ret.caller # 0 => ret.id = n_returned - 1

\* With no policy, a call returns 0 while another caller that also loaded 0 is about to
\* perform its fetch_add.
C9_Witness ==
    /\ reset_interval = None
    /\ reset_threshold = None
    /\ ret.id = 0
    /\ \E t \in Callers : t # ret.caller /\ ipc[t] = "fetch_add" /\ current_count[t] = 0

\* C10: single caller, interval I, no threshold: should_reset answers reset exactly when
\* the time since the last reset (or construction) is at least I; a call told to reset
\* returns 0, any other call returns the previous id plus one (0 for the very first).
C10_TimeResetSequence ==
    [][\A t \in Callers :
         (reset_interval # None /\ reset_threshold = None) =>
           /\ (ipc[t] = "should_reset_now" /\ ipc'[t] # "should_reset_now") =>
                 ((should'[t] = "reset") <=> (clock - last_reset_time >= reset_interval))
           /\ (ipc[t] = "fetch_add" /\ ipc'[t] = "idle") =>
                 ret'.id = IF should[t] = "reset" \/ n_returned = 0 THEN 0
                           ELSE issued[Len(issued)] + 1]_vars

\* After a time-triggered reset returned 0, the next call has returned 1.
C10_Witness ==
    /\ reset_interval # None
    /\ reset_threshold = None
    /\ epoch >= 1
    /\ ret.caller # 0
    /\ ~ret.reset
    /\ ret.id = 1
    /\ issued = <<0, 1>>

\* C11: the step at which should_reset answers a call sends it into reset exactly when
\* (a threshold is set and the counter value c the call loaded is >= threshold) or (an
\* interval is set and the time from the stamp the call read to now is >= interval),
\* and a call performs counter.store(0) only after such an answer.
C11_ResetIffEitherPolicy ==
    [][\A t \in Callers :
         /\ (ipc[t] \in {"idle", "should_reset_now"} /\ ipc'[t] \in {"reset", "fetch_add"}) =>
              ((ipc'[t] = "reset") <=>
                  \/ reset_threshold # None /\ current_count'[t] >= reset_threshold
                  \/ /\ reset_interval # None
                     /\ ipc[t] = "should_reset_now"
                     /\ duration_since(clock, last_reset[t]) >= reset_interval)
         /\ (ipc[t] = "reset_store" /\ ipc'[t] # "reset_store") => should[t] = "reset"
         /\ (ipc[t] = "fetch_add" /\ ipc'[t] = "idle") =>
              (ret'.reset <=> should[t] = "reset")]_vars

\* A call is sent into reset by the interval alone, its count being below the threshold.
C11_Witness ==
    \E t \in Callers :
        /\ ipc[t] = "reset"
        /\ reset_threshold # None
        /\ current_count[t] < reset_threshold
        /\ reset_interval # None
        /\ elapsed[t] >= reset_interval

\* C12: a read of 0 bytes on either stream ends the relay: the same step emits log_end
\* with status "close" and no error for that connection, and from then on nothing is
\* read from or written to either of its streams.
C12_EofEndsRelay ==
    [][/\ (event'.kind # "none" /\ event'.n = 0) =>
            /\ pc'[event'.conn] = "done"
            /\ emitted'.kind = "end"
            /\ emitted'.id = conn_info[event'.conn].id
            /\ emitted'.status = "close"
            /\ emitted'.error = NoError
       /\ \A c \in Conns :
            pc[c] = "done" =>
                /\ pc'[c] = "done"
                /\ server_session'[c] = server_session[c]
                /\ client_session'[c] = client_session[c]]_vars

\* The client closes after bytes were relayed: the line reports "close" with the counts.
C12_Witness ==
    /\ event.kind = "DownstreamRead"
    /\ event.n = 0
    /\ emitted.kind = "end"
    /\ emitted.status = "close"
    /\ emitted.sent + emitted.received > 0

\* The warn! lines of the stream operations of duplex.
StreamErrorNotes ==
    {"Downstream read error", "Upstream read error",
     "Failed to write to client session", "Failed to flush client session",
     "Failed to write to server session", "Failed to flush server session"}

\* C13: a step in which a read, write or flush of a relay fails ends that relay: it emits
\* log_end with status "fail " and the error's message, decrements the gauge of the
\* mapping by one, and the relay then does no further stream operation; a log_end line
\* carries "fail " exactly when it carries an error.
C13_ErrorEndsRelay ==
    [][/\ note'.text \in StreamErrorNotes =>
            \E c \in Active :
                /\ pc'[c] = "done"
                /\ emitted'.kind = "end"
                /\ emitted'.id = conn_info[c].id
                /\ emitted'.status = "fail "
                /\ emitted'.error = note'.error
                /\ emitted'.error \in Errors
                /\ active_connections'[app[c]] = active_connections[app[c]] - 1
                /\ decrements'[c] = decrements[c] + 1
       /\ emitted'.kind = "end" =>
            (emitted'.status = "fail " <=> emitted'.error # NoError)
       /\ \A c \in Conns :
            (pc[c] = "done" /\ decrements[c] = 1) =>
                /\ decrements'[c] = 1
                /\ server_session'[c] = NewStream
                /\ client_session'[c] = NewStream]_vars

\* A flush towards the client fails after the bytes were written.
C13_Witness ==
    /\ note.text = "Failed to flush server session"
    /\ emitted.kind = "end"
    /\ emitted.status = "fail "
    /\ emitted.error = "broken pipe"
    /\ emitted.sent > 0

\* The last n elements of a sequence.
LastN(seq, n) == SubSeq(seq, Len(seq) - n + 1, Len(seq))

\* C14: a downstream read of n > 0 bytes adds n to bytes_received and leaves bytes_sent;
\* the write that follows appends exactly the n bytes just read to the upstream stream,
\* and the flush that follows pushes out all that was written; nothing else changes the
\* counters.  Symmetrically for an upstream read, the downstream stream and bytes_sent.
C14_ForwardAndCount ==
    [][\A c \in Conns :
         /\ (event'.conn = c /\ event'.kind = "DownstreamRead" /\ event'.n > 0) =>
              /\ Len(server_session'[c].read) = Len(server_session[c].read) + event'.n
              /\ stats'[c].bytes_received = stats[c].bytes_received + event'.n
              /\ stats'[c].bytes_sent = stats[c].bytes_sent
              /\ pc'[c] = "client_write"
              /\ chunk'[c] = event'.n
         /\ (event'.conn = c /\ event'.kind = "UpstreamRead" /\ event'.n > 0) =>
              /\ Len(client_session'[c].read) = Len(client_session[c].read) + event'.n
              /\ stats'[c].bytes_sent = stats[c].bytes_sent + event'.n
              /\ stats'[c].bytes_received = stats[c].bytes_received
              /\ pc'[c] = "server_write"
              /\ chunk'[c] = event'.n
         /\ (pc[c] = "client_write" /\ pc'[c] # "client_write") =>
              \/ pc'[c] = "done"
              \/ /\ pc'[c] = "client_flush"
                 /\ client_session'[c].written =
                       client_session[c].written \o LastN(server_session[c].read, chunk[c])
                 /\ server_session'[c] = server_session[c]
                 /\ stats'[c] = stats[c]
         /\ (pc[c] = "server_write" /\ pc'[c] # "server_write") =>
              \/ pc'[c] = "done"
              \/ /\ pc'[c] = "server_flush"
                 /\ server_session'[c].written =
                       server_session[c].written \o LastN(client_session[c].read, chunk[c])
                 /\ client_session'[c] = client_session[c]
                 /\ stats'[c] = stats[c]
         /\ (pc[c] = "client_flush" /\ pc'[c] # "client_flush") =>
              \/ pc'[c] = "done"
              \/ /\ pc'[c] = "select"
                 /\ client_session'[c].flushed = Len(client_session[c].written)
                 /\ client_session'[c].written = client_session[c].written
                 /\ stats'[c] = stats[c]
         /\ (pc[c] = "server_flush" /\ pc'[c] # "server_flush") =>
              \/ pc'[c] = "done"
              \/ /\ pc'[c] = "select"
                 /\ server_session'[c].flushed = Len(server_session[c].written)
                 /\ server_session'[c].written = server_session[c].written
                 /\ stats'[c] = stats[c]]_vars

\* Two bytes read from the client in one read have been written upstream and flushed.
C14_Witness ==
    \E c \in Conns :
        /\ pc[c] = "select"
        /\ Len(server_session[c].read) = 2
        /\ client_session[c].written = server_session[c].read
        /\ client_session[c].flushed = 2
        /\ stats[c].bytes_received = 2
        /\ stats[c].bytes_sent = 0
        /\ upstream_buf[c] = <<"a", "b">>

\* C15: bytes_sent is the number of bytes relayed from the client to the backend (read
\* from server_session, the downstream stream) and bytes_received the number relayed
\* from the backend to the client (read from client_session, the upstream stream).
C15_SentIsClientToBackend ==
    \A c \in Conns :
        /\ stats[c].bytes_sent = Len(server_session[c].read)
        /\ stats[c].bytes_received = Len(client_session[c].read)

\* a is an initial segment of b.
IsPrefix(a, b) == Len(a) <= Len(b) /\ SubSeq(b, 1, Len(a)) = a

\* C16: in every state and for each direction, the bytes written to the destination are
\* an initial segment of the bytes read from the source, in order; what is missing is at
\* most the chunk being forwarded, and at the top of the loop nothing is missing.
C16_WrittenIsPrefixOfRead ==
    \A c \in Conns :
        /\ IsPrefix(client_session[c].written, server_session[c].read)
        /\ IsPrefix(server_session[c].written, client_session[c].read)
        /\ Len(server_session[c].read) - Len(client_session[c].written)
               = IF pc[c] = "client_write" THEN chunk[c] ELSE 0
        /\ Len(client_session[c].read) - Len(server_session[c].written)
               = IF pc[c] = "server_write" THEN chunk[c] ELSE 0

\* Data spanning two reads: the first byte has been forwarded, the second, a different
\* one, is about to be written, while the other direction has carried nothing.
C16_Witness ==
    \E c \in Conns :
        /\ pc[c] = "client_write"
        /\ server_session[c].read = <<"a", "b">>
        /\ client_session[c].written = <<"a">>
        /\ upstream_buf[c] = <<"b">>

\* The relay steps of a connection, from the call of duplex to its return.
Relaying == {"duplex", "select", "client_write", "client_flush", "server_write", "server_flush"}

\* C17: the "estab" line carries the id of the connection's ConnectionInfo, which does
\* not change during the relay; and when the client closes after the backend has echoed
\* every byte it was sent and the client was sent every echoed byte, N > 0 in all, that
\* step emits the one "close" line of the relay, with the same id and with Sent = N and
\* Received = N, after exactly one "estab" line.
C17_EchoRoundTrip ==
    [][\A c \in Conns :
         /\ (pc[c] = "duplex" /\ pc'[c] = "select") =>
              (emitted'.kind = "estab" /\ emitted'.id = conn_info[c].id)
         /\ (pc[c] \in Relaying /\ pc'[c] \in Relaying) => conn_info'[c] = conn_info[c]
         /\ ( /\ event'.conn = c
              /\ event'.kind = "DownstreamRead"
              /\ event'.n = 0
              /\ Len(server_session[c].read) > 0
              /\ client_session[c].read = client_session[c].written
              /\ server_session[c].written = server_session[c].read
              /\ server_session[c].flushed = Len(server_session[c].written) ) =>
              /\ emitted'.kind = "end"
              /\ emitted'.status = "close"
              /\ emitted'.id = conn_info[c].id
              /\ emitted'.sent = Len(server_session[c].read)
              /\ emitted'.received = Len(server_session[c].read)
              /\ log_start_n'[c] = 1
              /\ log_end_n'[c] = 1]_vars

\* The close line of a relay that carried two bytes each way.
C17_Witness ==
    /\ event.kind = "DownstreamRead"
    /\ event.n = 0
    /\ emitted.kind = "end"
    /\ emitted.status = "close"
    /\ emitted.sent = 2
    /\ emitted.received = 2
    /\ \E c \in Conns : log_start_n[c] = 1 /\ log_end_n[c] = 1

\* C18: the step in which the dial of an accepted client fails logs no "estab" and no
\* "close"/"fail " line, leaves every gauge and every other connection as they were, and
\* the attempt never logs a line later; a client that has not connected yet can still be
\* accepted and one that is being dialed can still be admitted.
C18_FailedDialStartsNothing ==
    [][\A c \in Conns :
         /\ (pc[c] = "dial" /\ pc'[c] = "refused") =>
              /\ emitted' = NoLine
              /\ active_connections' = active_connections
              /\ decrements' = decrements
              /\ log_start_n' = log_start_n
              /\ log_end_n' = log_end_n
              /\ \A d \in Conns \ {c} : pc'[d] = pc[d]
         /\ pc[c] = "refused" =>
              /\ pc'[c] = "refused"
              /\ log_start_n'[c] = 0
              /\ log_end_n'[c] = 0
              /\ \A d \in Conns :
                   /\ pc[d] = "idle" => \A m \in Mappings : ENABLED Accept(d, m)
                   /\ pc[d] = "dial" => ENABLED DialOk(d)]_vars

\* After the dial for one client failed, another client is relayed as the only
\* connection the gauge of its mapping counts.
C18_Witness ==
    \E c \in Conns, d \in Conns :
        /\ pc[c] = "refused"
        /\ pc[d] = "select"
        /\ emitted.kind = "estab"
        /\ emitted.active = 1
        /\ active_connections[app[d]] = 1

\* C19: a relay logs its start at most once, has logged it once it is in its loop or has
\* ended, and has logged it before any step that reads, writes or flushes one of its
\* streams or fails doing so.
C19_StartBeforeIO ==
    [][\A c \in Conns :
         /\ log_start_n'[c] <= 1
         /\ pc'[c] \in (Relaying \ {"duplex"}) \cup {"done"} => log_start_n'[c] = 1
         /\ pc'[c] \in {"idle", "dial", "admitted", "duplex", "refused"} =>
              /\ log_start_n'[c] = 0
              /\ server_session'[c] = NewStream
              /\ client_session'[c] = NewStream
         /\ ( \/ server_session'[c] # server_session[c]
              \/ client_session'[c] # client_session[c]
              \/ event'.conn = c
              \/ (note'.text \in StreamErrorNotes /\ pc'[c] # pc[c]) ) =>
              log_start_n[c] = 1]_vars

\* The start line has just been logged and nothing has been read or written yet.
C19_Witness ==
    \E c \in Conns :
        /\ pc[c] = "select"
        /\ emitted.kind = "estab"
        /\ emitted.id = conn_info[c].id
        /\ log_start_n[c] = 1
        /\ server_session[c] = NewStream
        /\ client_session[c] = NewStream

\* C20: the gauge value kept for the start log is the gauge right after the connection's
\* own increment (at least 1), it is what the "estab" line prints whatever other
\* connections do in between, and the value the end line prints is the gauge right after
\* the connection's own decrement.
C20_LoggedGaugeValues ==
    [][\A c \in Conns :
         /\ (pc[c] = "dial" /\ pc'[c] = "admitted") =>
              /\ conn_info'[c].active_connections = active_connections'[app[c]]
              /\ conn_info'[c].active_connections = active_connections[app[c]] + 1
              /\ conn_info'[c].active_connections >= 1
         /\ (pc[c] \in {"admitted", "duplex"}) =>
              conn_info'[c].active_connections = conn_info[c].active_connections
         /\ (pc[c] = "duplex" /\ pc'[c] = "select") =>
              /\ emitted'.kind = "estab"
              /\ emitted'.active = conn_info[c].active_connections
         /\ (pc[c] \in Relaying /\ pc'[c] = "done") =>
              /\ emitted'.kind = "end"
              /\ emitted'.remaining = active_connections'[app[c]]
              /\ emitted'.remaining = active_connections[app[c]] - 1
              /\ emitted'.remaining >= 0]_vars

\* A start line prints 1 although the gauge of the mapping has since reached 2.
C20_Witness ==
    \E c \in Conns :
        /\ pc[c] = "select"
        /\ emitted.kind = "estab"
        /\ emitted.id = conn_info[c].id
        /\ emitted.active = 1
        /\ active_connections[app[c]] = 2

\* C21: the step in which a relay ends on a stream error leaves the stats, the
\* ConnectionInfo, the position, the streams and the log counts of every other connection
\* as they were, takes exactly 1 from the gauge of the failing relay's mapping and leaves
\* the gauges of the other mappings.
C21_ErrorIsLocal ==
    [][\A c \in Conns :
         (pc[c] \in Relaying /\ pc'[c] = "done" /\ note'.text \in StreamErrorNotes) =>
            /\ \A d \in Conns \ {c} :
                 /\ stats'[d] = stats[d]
                 /\ conn_info'[d] = conn_info[d]
                 /\ pc'[d] = pc[d]
                 /\ app'[d] = app[d]
                 /\ chunk'[d] = chunk[d]
                 /\ server_session'[d] = server_session[d]
                 /\ client_session'[d] = client_session[d]
                 /\ upstream_buf'[d] = upstream_buf[d]
                 /\ downstream_buf'[d] = downstream_buf[d]
                 /\ log_start_n'[d] = log_start_n[d]
                 /\ log_end_n'[d] = log_end_n[d]
                 /\ decrements'[d] = decrements[d]
            /\ active_connections'[app[c]] = active_connections[app[c]] - 1
            /\ \A m \in Mappings \ {app[c]} : active_connections'[m] = active_connections[m]
            /\ CONNECTION_ID_COUNTER' = CONNECTION_ID_COUNTER]_vars

\* A relay has just failed while a relay of another mapping is forwarding a byte.
C21_Witness ==
    \E c \in Conns, d \in Conns :
        /\ pc[c] = "done"
        /\ note.text = "Upstream read error"
        /\ emitted.kind = "end"
        /\ emitted.status = "fail "
        /\ pc[d] = "client_write"
        /\ stats[d].bytes_received = 1
        /\ active_connections[app[d]] = 1
        /\ emitted.remaining = 0

\* C22: the step that builds a ConnectionInfo is one next_id call on the shared
\* ConnectionIdManager: the manager counts one more returned id, and that id is the one
\* the ConnectionInfo carries.
C22_IdFromNextId ==
    [][\A c \in Conns :
         (pc[c] = "admitted" /\ pc'[c] = "duplex") =>
            /\ n_returned' = n_returned + 1
            /\ ret'.id = conn_info'[c].id]_vars

\* C30: with a threshold T configured, whatever the interleaving of the callers, no
\* next_id call returns an id of T or more and the counter never exceeds T.
C30_IdsBelowThreshold ==
    reset_threshold # None =>
        /\ counter <= reset_threshold
        /\ ret.caller # 0 => ret.id < reset_threshold

\* The positions of the character ch in the string s.
Positions(s, ch) == {i \in 1..Len(s) : s[i] = ch}

\* C23: parse_proxy_mapping returns Ok exactly for the strings with three ':' (four
\* parts) and Err for all others; on Ok, listen_addr is the input up to its second ':'
\* and proxy_addr the input after it, whatever the parts are.
C23_FourPartsOrError ==
    output # NoOutput =>
        LET colons == Positions(input, ":")
        IN /\ output.kind \in {"Ok", "Err"}
           /\ (output.kind = "Ok") <=> (Cardinality(colons) = 3)
           /\ output.kind = "Ok" =>
                \E j \in colons :
                    /\ Cardinality({i \in colons : i < j}) = 1
                    /\ output.value.listen_addr = SubSeq(input, 1, j - 1)
                    /\ output.value.proxy_addr = SubSeq(input, j + 1, Len(input))

\* A mapping with an empty listen port and an empty backend host is accepted as it is.
C23_Witness ==
    /\ output.kind = "Ok"
    /\ input = <<"h", ":", ":", ":", "8">>
    /\ output.value.listen_addr = <<"h", ":">>
    /\ output.value.proxy_addr = <<":", "8">>

\* The count of seconds a text stands for, computed without a width: TooLarge stands for
\* every number above U64_MAX.
TooLarge == U64_MAX + 1
SatAdd(a, b) == IF a > U64_MAX \/ b > U64_MAX \/ a > U64_MAX - b THEN TooLarge ELSE a + b
SatMul(a, b) ==
    IF a = 0 \/ b = 0 THEN 0
    ELSE IF a > U64_MAX \/ b > U64_MAX \/ a > U64_MAX \div b THEN TooLarge
    ELSE a * b

\* The number a run of decimal digits denotes.
RECURSIVE Decimal(_)
Decimal(ds) ==
    IF ds = <<>> THEN 0
    ELSE SatAdd(SatMul(Decimal(SubSeq(ds, 1, Len(ds) - 1)), 10), digit(ds[Len(ds)]))

\* The unit characters of a duration, in either case, and the seconds of each.
UnitChars == {"d", "D", "h", "H", "m", "M", "s", "S"}
UnitSeconds(ch) ==
    CASE ch \in {"d", "D"} -> 86400
      [] ch \in {"h", "H"} -> 3600
      [] ch \in {"m", "M"} -> 60
      [] ch \in {"s", "S"} -> 1

\* s is a sequence of one or more (digits)(unit) pairs.
IsPairs(s) ==
    /\ s # <<>>
    /\ s[Len(s)] \in UnitChars
    /\ \A i \in 1..Len(s) : s[i] \in AsciiDigits \cup UnitChars
    /\ \A i \in 1..Len(s) : s[i] \in UnitChars => (i > 1 /\ s[i - 1] \in AsciiDigits)

\* The digits that precede the unit at position i of s.
DigitsBefore(s, i) ==
    LET stops == {j \in 1..(i - 1) : s[j] \notin AsciiDigits}
        start == IF stops = {} THEN 1 ELSE 1 + CHOOSE j \in stops : \A k \in stops : k <= j
    IN SubSeq(s, start, i - 1)

\* The sum, over the pairs of s that end at the positions P, of digits times unit seconds.
RECURSIVE PairSum(_, _)
PairSum(s, P) ==
    IF P = {} THEN 0
    ELSE LET i == CHOOSE x \in P : TRUE
         IN SatAdd(SatMul(Decimal(DigitsBefore(s, i)), UnitSeconds(s[i])),
                   PairSum(s, P \ {i}))
TotalSeconds(s) == PairSum(s, {i \in 1..Len(s) : s[i] \in UnitChars})

\* C24, as claimed: for every sequence of (digits)(unit) pairs with a non-zero total,
\* parse_duration returns Ok with the sum of digits times unit seconds over the pairs.
C24_PairsGiveSum ==
    (output # NoOutput /\ IsPairs(input) /\ TotalSeconds(input) # 0) =>
        output = Ok(TotalSeconds(input))

\* C24, amended: for every sequence of (digits)(unit) pairs whose total is non-zero and
\* fits in a u64, parse_duration returns Ok with the sum of digits times unit seconds over
\* the pairs, in any unit order and with units repeated, in either case.
C24_PairsGiveSumThatFits ==
    (output # NoOutput /\ IsPairs(input) /\ TotalSeconds(input) \in 1..U64_MAX) =>
        output = Ok(TotalSeconds(input))

\* "2S2d", seconds before days and in upper case, gives 2 + 2 * 86400 seconds.
C24_Witness ==
    /\ input = <<"2", "S", "2", "d">>
    /\ output = Ok(172802)

\* C25: parse_duration returns Err for the empty string, for a string that ends in
\* digits, for a unit character with no digit before it, for a character that is neither
\* a digit nor a unit, and for pairs that total zero seconds (the string taken as
\* parse_duration takes it, without the white space around it).
C25_MalformedIsError ==
    output # NoOutput =>
        LET t == trim(input)
        IN (\/ t = <<>>
            \/ t # <<>> /\ t[Len(t)] \in AsciiDigits
            \/ \E i \in 1..Len(t) : t[i] \in UnitChars /\ (i = 1 \/ t[i - 1] \notin AsciiDigits)
            \/ \E i \in 1..Len(t) : t[i] \notin AsciiDigits \cup UnitChars
            \/ IsPairs(t) /\ TotalSeconds(t) = 0)
           => output.kind = "Err"

\* The suffixes of a count, in either case, and the factor of each.
CountSuffixes == {"k", "K", "m", "M", "g", "G"}
SuffixFactor(ch) ==
    CASE ch \in {"k", "K"} -> 1000
      [] ch \in {"m", "M"} -> 1000000
      [] ch \in {"g", "G"} -> 1000000000

\* s without its suffix if it has one, and the factor s is to be multiplied by.
HasSuffix(s) == s # <<>> /\ s[Len(s)] \in CountSuffixes
NumericPart(s) == IF HasSuffix(s) THEN SubSeq(s, 1, Len(s) - 1) ELSE s
Factor(s) == IF HasSuffix(s) THEN SuffixFactor(s[Len(s)]) ELSE 1
AllDigits(s) == s # <<>> /\ \A i \in 1..Len(s) : s[i] \in AsciiDigits

\* C26: for a positive integer, optionally followed by k, m or g in either case,
\* parse_count returns Ok with the integer times 1, 1000, 1000000 or 1000000000,
\* whenever that product fits in a u64.
C26_CountTimesSuffix ==
    (/\ output # NoOutput
     /\ AllDigits(NumericPart(input))
     /\ Decimal(NumericPart(input)) > 0
     /\ SatMul(Decimal(NumericPart(input)), Factor(input)) <= U64_MAX) =>
        output = Ok(SatMul(Decimal(NumericPart(input)), Factor(input)))

\* "1G" gives 1000000000.
C26_Witness ==
    /\ input = <<"1", "G">>
    /\ output = Ok(1000000000)

\* The text is an optional sign followed by one or more digits.
IsSigned(s) == s # <<>> /\ s[1] \in {"+", "-"}
Unsigned(s) == IF IsSigned(s) THEN Tail(s) ELSE s
IsNumeric(s) == AllDigits(Unsigned(s))

\* C27: parse_count returns Err for the empty string, for a numeric part that is zero,
\* for a numeric part that is not a number or is negative, and when the product with the
\* suffix factor does not fit in a u64; an Ok is never 0 and always the exact product
\* (the string taken as parse_count takes it, without the white space around it).
C27_CountErrors ==
    output # NoOutput =>
        LET t == trim(input)
            part == NumericPart(t)
            exact == SatMul(Decimal(Unsigned(part)), Factor(t))
        IN /\ (\/ t = <<>>
               \/ IsNumeric(part) /\ Decimal(Unsigned(part)) = 0
               \/ ~IsNumeric(part)
               \/ IsNumeric(part) /\ part[1] = "-"
               \/ IsNumeric(part) /\ exact = TooLarge)
              => output.kind = "Err"
           /\ output.kind = "Ok" =>
                /\ output.value # 0
                /\ IsNumeric(part)
                /\ output.value = exact

\* "2g" does not fit in the u64 of the model: Err, where a wrapped product would be
\* 926258176.
C27_Witness ==
    /\ input = <<"2", "g">>
    /\ output = Err("Count value too large")

\* C28: format_bytes gives B below 1024, KB from 1024 to below 1024^2, MB from 1024^2 to
\* below 1024^3 and GB from 1024^3 on; 1023, 1024, 1048575 and 1048576 give B, KB, KB
\* and MB.
C28_BinaryTiers ==
    output # NoOutput =>
        /\ output.unit = (IF input < 1024 THEN "B"
                          ELSE IF input < 1048576 THEN "KB"
                          ELSE IF input < 1073741824 THEN "MB"
                          ELSE "GB")
        /\ input = 1023 => output.unit = "B"
        /\ input = 1024 => output.unit = "KB"
        /\ input = 1048575 => output.unit = "KB"
        /\ input = 1048576 => output.unit = "MB"

\* 1048575 bytes are still KB: "1024.0 KB".
C28_Witness ==
    /\ input = 1048575
    /\ output = [whole |-> 1024, tenth |-> 0, unit |-> "KB"]

\* The entries of a PJ_PROXIES value that are mappings, in order.
RECURSIVE ValidEntries(_)
ValidEntries(parts) ==
    IF parts = <<>> THEN <<>>
    ELSE (IF Cardinality(Positions(trim(Head(parts)), ":")) = 3
          THEN <<trim(Head(parts))>> ELSE <<>>) \o ValidEntries(Tail(parts))

\* The mappings as strings listen_addr:proxy_addr.
MappingStrings(ms) == [i \in 1..Len(ms) |-> host_port(ms[i].listen_addr, ms[i].proxy_addr)]

\* C29: the mappings come from one source: the command line alone if it has any --proxy,
\* else PJ_PROXIES alone if it is set, else PJ_PROXY; and an empty list ends the process
\* with status 1 and no service started.
C29_OneSourceByPriority ==
    output # NoOutput =>
        /\ input.proxy # <<>> => output.mappings = input.proxy
        /\ (input.proxy = <<>> /\ input.PJ_PROXIES.set) =>
              MappingStrings(output.mappings)
                 = ValidEntries(split(input.PJ_PROXIES.value, {",", ";"}))
        /\ (input.proxy = <<>> /\ ~input.PJ_PROXIES.set /\ input.PJ_PROXY.set) =>
              MappingStrings(output.mappings)
                 = ValidEntries(<<input.PJ_PROXY.value>>)
        /\ (input.proxy = <<>> /\ ~input.PJ_PROXIES.set /\ ~input.PJ_PROXY.set) =>
              output.mappings = <<>>
        /\ output.mappings = <<>> =>
              (output.kind = "exit" /\ output.status = 1 /\ output.services = <<>>)
        /\ output.kind = "run_forever" => output.services = output.mappings

\* A run with a --proxy argument and both variables set serves the argument's mapping only.
C29_Witness ==
    /\ output.kind = "run_forever"
    /\ Len(input.proxy) = 1
    /\ input.PJ_PROXIES = Set(MappingA)
    /\ input.PJ_PROXY = Set(MappingC)
    /\ MappingStrings(output.services) = <<MappingB>>

\* C31: every reset line names a trigger that fired: by_count or by_time is true whenever
\* reset runs, so no line reads "unknown trigger".
C31_ResetNamesTrigger ==
    reset_line # NoReset => reset_line.trigger # "unknown trigger"

\* C32: a reset stores 0 in the counter and stamps last_reset_time with the time it took
\* when it began; last_reset_time never moves backwards; and should_reset answers true
\* for the interval only when a full interval has passed since the latest stamp.
C32_ResetStampsTime ==
    [][/\ last_reset_time' >= last_reset_time
       /\ \A t \in Callers :
            /\ (ipc[t] = "reset_store" /\ ipc'[t] = "reset_stamp") => counter' = 0
            /\ (ipc[t] = "reset_stamp" /\ ipc'[t] = "fetch_add") => last_reset_time' = now[t]
            /\ (ipc[t] = "should_reset_now" /\ ipc'[t] = "reset") =>
                   clock - last_reset_time >= reset_interval]_vars

\* C33, as claimed: the bytes_received a relay reports to log_end is the number of bytes
\* written and flushed to the upstream stream, and bytes_sent the number written and
\* flushed to the downstream stream.
C33_ReportedIsFlushed ==
    [][\A c \in Conns :
         (pc[c] \in Relaying /\ pc'[c] = "done") =>
            /\ emitted'.received = client_session[c].flushed
            /\ emitted'.sent = server_session[c].flushed]_vars

\* C33, amended: the bytes_received a relay reports to log_end is the number of bytes read
\* from the downstream stream: those written and flushed to the upstream stream and, when
\* the relay ends on a failed write or flush to it, the chunk that failed as well; and
\* the same for bytes_sent, the upstream reads and the downstream writes.
C33_ReportedIsRead ==
    [][\A c \in Conns :
         (pc[c] \in Relaying /\ pc'[c] = "done") =>
            /\ emitted'.kind = "end"
            /\ emitted'.received = Len(server_session[c].read)
            /\ emitted'.received = client_session[c].flushed
                  + (IF pc[c] \in {"client_write", "client_flush"} THEN chunk[c] ELSE 0)
            /\ emitted'.sent = Len(client_session[c].read)
            /\ emitted'.sent = server_session[c].flushed
                  + (IF pc[c] \in {"server_write", "server_flush"} THEN chunk[c] ELSE 0)]_vars

\* A relay that forwarded two bytes and then failed to flush two more reports all four.
C33_Witness ==
    /\ emitted.kind = "end"
    /\ emitted.status = "fail "
    /\ note.text = "Failed to flush client session"
    /\ emitted.received = 4
    /\ emitted.sent = 0

\* The n of the DuplexEvent of the given kind that the step produced for c, 0 if none.
EventBytes(c, kind) == IF event'.conn = c /\ event'.kind = kind THEN event'.n ELSE 0

AllFlushed(stream) == stream.flushed = Len(stream.written)

\* C36: a read result of a relay is produced only while the relay waits in the select, one
\* per iteration; while it waits there, and when a write starts, nothing written is left
\* unflushed on either stream; a stream is written only by the one write of the
\* iteration; after a write the relay goes to the flush of the same stream or ends, and
\* after the flush it goes back to the select, with everything flushed, or ends.
C36_OneReadThenWriteThenFlush ==
    [][\A c \in Conns :
         /\ (event'.conn = c /\ event' # NoEvent) => pc[c] = "select"
         /\ (pc[c] = "select" /\ pc'[c] \in Relaying /\ pc'[c] # "select") =>
              /\ event'.conn = c
              /\ event'.n > 0
              /\ chunk'[c] = event'.n
              /\ pc'[c] = (IF event'.kind = "DownstreamRead" THEN "client_write"
                                                             ELSE "server_write")
         /\ pc[c] \in {"select", "client_write", "server_write"} =>
              /\ AllFlushed(client_session[c])
              /\ AllFlushed(server_session[c])
         /\ (pc'[c] \in Relaying /\ client_session'[c].written # client_session[c].written) =>
              /\ pc[c] = "client_write"
              /\ pc'[c] = "client_flush"
         /\ (pc'[c] \in Relaying /\ server_session'[c].written # server_session[c].written) =>
              /\ pc[c] = "server_write"
              /\ pc'[c] = "server_flush"
         /\ pc[c] = "client_write" => pc'[c] \in {"client_write", "client_flush", "done"}
         /\ pc[c] = "server_write" => pc'[c] \in {"server_write", "server_flush", "done"}
         /\ pc[c] = "client_flush" => pc'[c] \in {"client_flush", "select", "done"}
         /\ pc[c] = "server_flush" => pc'[c] \in {"server_flush", "select", "done"}
         /\ (pc[c] \in {"client_flush", "server_flush"} /\ pc'[c] = "select") =>
              /\ AllFlushed(client_session'[c])
              /\ AllFlushed(server_session'[c])]_vars

\* The relay is back at the select after iterations in both directions.
C36_Witness ==
    \E c \in Conns :
        /\ pc[c] = "select"
        /\ client_session[c].flushed = 3
        /\ server_session[c].flushed = 1

\* The connections whose dial succeeded and that were given an id.
Identified == {c \in Conns : pc[c] \in {"duplex", "done"} \cup Relaying}

\* C38: a failed dial changes neither the id manager's counter, last_reset_time and
\* last_reset_count, nor the counter the logged ids come from; an id is taken only by a
\* connection whose dial succeeded, and it is the counter's value, which then grows by
\* one: the ids given out are 0, 1, ... with one id per connection that got through.
C38_FailedDialTakesNoId ==
    [][/\ \A c \in Conns :
            /\ (pc[c] = "dial" /\ pc'[c] = "refused") =>
                  /\ UNCHANGED <<counter, last_reset_time, last_reset_count, n_returned>>
                  /\ UNCHANGED CONNECTION_ID_COUNTER
            /\ (pc[c] = "admitted" /\ pc'[c] = "duplex") =>
                  /\ conn_info'[c].id = CONNECTION_ID_COUNTER
                  /\ CONNECTION_ID_COUNTER' = CONNECTION_ID_COUNTER + 1
       /\ CONNECTION_ID_COUNTER' # CONNECTION_ID_COUNTER =>
            \E c \in Conns : pc[c] = "admitted" /\ pc'[c] = "duplex"
       /\ CONNECTION_ID_COUNTER' = Cardinality(Identified')
       /\ emitted'.kind = "estab" => emitted'.id < CONNECTION_ID_COUNTER']_vars

\* A connection is established with id 0 after the dial of another one has failed.
C38_Witness ==
    \E d \in Conns :
        /\ pc[d] = "refused"
        /\ emitted.kind = "estab"
        /\ emitted.id = 0
        /\ CONNECTION_ID_COUNTER = 1

\* C39: for every string parse_proxy_mapping accepts, listen_addr, a ':' and proxy_addr
\* put together give the string back, and listen_addr and proxy_addr have one ':' each,
\* empty host or port fields included.
C39_MappingRoundTrips ==
    output.kind = "Ok" =>
        /\ output.value.listen_addr \o <<":">> \o output.value.proxy_addr = input
        /\ Cardinality(Positions(output.value.listen_addr, ":")) = 1
        /\ Cardinality(Positions(output.value.proxy_addr, ":")) = 1

\* A mapping of three ':' and nothing else is accepted, with all four fields empty.
C39_Witness ==
    /\ output.kind = "Ok"
    /\ input = <<":", ":", ":">>
    /\ output.value.listen_addr = <<":">>
    /\ output.value.proxy_addr = <<":">>

\* C37: parse_duration returns Ok or Err for every string, an Ok total is the sum of
\* digits times unit seconds over the pairs and never a wrapped one, and pairs whose
\* products or sum exceed a u64 give Err.
C37_OverflowIsError ==
    output # NoOutput =>
        LET t == trim(input)
        IN /\ output.kind \in {"Ok", "Err"}
           /\ output.kind = "Ok" => output.value = TotalSeconds(t)
           /\ (IsPairs(t) /\ TotalSeconds(t) > U64_MAX) => output.kind = "Err"

\* The durations and the counts that are well formed: pairs with a non-zero total that
\* fits in a u64; an unsigned or '+' signed number, with or without a suffix, whose
\* product with the factor is non-zero and fits in a u64.
WellFormedDuration(t) == IsPairs(t) /\ TotalSeconds(t) \in 1..U64_MAX
CountValue(t) == SatMul(Decimal(Unsigned(NumericPart(t))), Factor(t))
WellFormedCount(t) ==
    /\ IsNumeric(NumericPart(t))
    /\ NumericPart(t)[1] # "-"
    /\ CountValue(t) \in 1..U64_MAX

\* C40: whatever the two reset variables hold, main does not abort: it ends in
\* run_forever or, for want of a mapping or of a server, in exit; the id manager gets the
\* interval if PJ_CONN_ID_RESET_INTERVAL is set and well formed and None otherwise, and
\* the threshold if PJ_CONN_ID_RESET_COUNT is set and well formed and None otherwise, each
\* independently of the other; and of the entries of PJ_PROXIES the valid ones are kept
\* and the others passed over.
C40_MalformedDisablesPolicy ==
    output # NoOutput =>
        LET interval == trim(input.PJ_CONN_ID_RESET_INTERVAL.value)
            count == trim(input.PJ_CONN_ID_RESET_COUNT.value)
        IN /\ output.kind \in {"run_forever", "exit"}
           /\ output.kind = "run_forever" =>
                /\ output.reset_interval
                      = (IF input.PJ_CONN_ID_RESET_INTERVAL.set /\ WellFormedDuration(interval)
                         THEN TotalSeconds(interval) ELSE None)
                /\ output.reset_threshold
                      = (IF input.PJ_CONN_ID_RESET_COUNT.set /\ WellFormedCount(count)
                         THEN CountValue(count) ELSE None)
           /\ (input.proxy = <<>> /\ input.PJ_PROXIES.set) =>
                /\ MappingStrings(output.mappings)
                      = ValidEntries(split(input.PJ_PROXIES.value, {",", ";"}))
                /\ \A i \in 1..Len(output.rejected) :
                      parse_proxy_mapping(output.rejected[i]).kind = "Err"

\* C35: when every awaited write and flush completes and a read at last returns 0 bytes
\* or an error, a relay that has started ends, with its gauge decremented once; until
\* then it is counted in the gauge, and it leaves the select only on the result of one of
\* its two reads: there is no timeout.
C35_RelayEnds ==
    /\ \A c \in Conns : (pc[c] \in Relaying) ~> (pc[c] = "done" /\ decrements[c] = 1)
    /\ [](\A c \in Conns :
             pc[c] \in Relaying => (decrements[c] = 0 /\ active_connections[app[c]] >= 1))
    /\ [][\A c \in Conns :
            (pc[c] = "select" /\ pc'[c] # "select") =>
                \/ event'.conn = c /\ event'.kind \in {"DownstreamRead", "UpstreamRead"}
                \/ pc'[c] = "done"
                   /\ note'.text \in {"Downstream read error", "Upstream read error"}]_vars

\* A relay has ended on a read error of the upstream while the other relay still waits.
C35_Witness ==
    \E c, d \in Conns :
        /\ pc[c] = "done"
        /\ decrements[c] = 1
        /\ note.text = "Upstream read error"
        /\ emitted.kind = "end"
        /\ pc[d] = "select"

====
